---- MODULE Spec2Model ----
(***************************************************************************)
(* Rolling update of one cloud instance group                              *)
(* (package instancegroups, RollingUpdateInstanceGroup.RollingUpdate and   *)
(* its helpers).  One run of RollingUpdate is modelled call by call: every *)
(* call to an external collaborator (cluster validator, drain helper,      *)
(* Kubernetes API, cloud provider, sleep, operator terminal) appends an    *)
(* entry to `log`, and the collaborator's answer is a nondeterministic     *)
(* input of the action that makes the call.  Two further specifications    *)
(* start elsewhere: SpecValidate with a call of ValidateClusterWithDuration *)
(* on its own, SpecGroups with the update orchestrator, which runs          *)
(* RollingUpdate for one group after the other with one session.            *)
(***************************************************************************)
EXTENDS Integers, Sequences, FiniteSets, TLC

VARIABLES
    orch,               \* the update orchestrator: its groups, their order, its progress
    engine,             \* what NewRollingUpdateInstanceGroup returned: r and err
    rollingUpdateData,  \* *RollingUpdateCluster: the session parameters
    args,               \* the other arguments of RollingUpdate
    DrainAndValidate,   \* featureflag.DrainAndValidateRollingUpdate.Enabled()
    NeedUpdate,         \* r.CloudGroup.NeedUpdate
    Ready,              \* r.CloudGroup.Ready
    apiNodes,           \* names of the Node objects the Kubernetes API holds
    update,             \* the local slice `update`
    idx,                \* position of the range loop in `update` (1-based)
    pc,                 \* position of the run in RollingUpdate
    clock,              \* time since the timers of ValidateClusterWithDuration started
    nextTick,           \* time at which the next tick becomes receivable
    log,                \* the calls issued so far, in order
    result,             \* "running", "nil", "error" or "exit"
    err,                \* which error was returned ("" when none)
    exitCode,           \* the status the process exited with (0: it did not)
    faults              \* how many calls have failed so far

vars == <<orch, engine, rollingUpdateData, args, DrainAndValidate, NeedUpdate, Ready, apiNodes,
          update, idx, pc, clock, nextTick, log, result, err, exitCode, faults>>

----------------------------------------------------------------------------
(* Bounds of the model *)

\* at most this many members in the group (NeedUpdate and Ready together)
MaxMembers == 2

\* at most this many calls to collaborators fail in one run
MaxFaults == 2

\* at most this many validation attempts fail in one call of
\* ValidateClusterWithDuration made on its own
MaxPollFaults == 3

\* tickDuration := 30 * time.Second
TickDuration == 30

\* os.Exit(3)
ExitCode == 3

\* the validation timeouts a run is started with, in seconds
ValidationTimeouts == {35}

\* the time one call of the validator may take, in seconds: none, or a whole
\* tick
Latencies == {0, TickDuration}

\* the post-drain delays a session is configured with
PostDrainDelays == {0, 1}

\* u.Node == nil
NoNode == "<nil>"

\* the node name registered for the instance with the given ID
NodeNameOf(i) == <<"node-1", "node-2", "node-3", "node-4", "node-5", "node-6">>[i]

\* what u.Node can be for instance i: nil, or the node registered for it (a
\* Node object read from the Kubernetes API always carries a name)
NodeChoices(i) == {NoNode, NodeNameOf(i)}

Max(a, b) == IF a >= b THEN a ELSE b
Min(a, b) == IF a <= b THEN a ELSE b

\* one recorded call: the operation, the member it is for (0: none), the answer
Call(op, m, res) == [op |-> op, m |-> m, res |-> res]

----------------------------------------------------------------------------
(* Initial states: the arguments RollingUpdate can be called with *)

\* members with IDs from+1 .. from+n, each with some u.Node
Members(from, n) ==
    { s \in [1..n -> [ID : (from+1)..(from+n), Node : {NoNode, ""} \cup {NodeNameOf(i) : i \in (from+1)..(from+n)}]] :
        \A i \in 1..n : s[i].ID = from + i /\ s[i].Node \in NodeChoices(from + i) }

RegisteredNames(s) == { s[i].Node : i \in 1..Len(s) } \ {NoNode, ""}

\* the sessions RollingUpdate can be given
Sessions ==
    [ K8sClient : {"nil", "client"}, CloudOnly : BOOLEAN, Force : BOOLEAN,
      FailOnValidate : BOOLEAN, FailOnDrainError : BOOLEAN,
      Interactive : BOOLEAN, PostDrainDelay : PostDrainDelays ]

\* what the fields of a nil session read as in the model: they are never read
ZeroSession ==
    [ K8sClient |-> "nil", CloudOnly |-> FALSE, Force |-> FALSE,
      FailOnValidate |-> FALSE, FailOnDrainError |-> FALSE,
      Interactive |-> FALSE, PostDrainDelay |-> 0 ]

\* NewRollingUpdateInstanceGroup: the engine it returns (the empty set for
\* nil, else the set of the one struct pointed to) and the error ("nil": none)
NewRollingUpdateInstanceGroup(cloud, cloudGroup) ==
    IF cloud = "nil"
    THEN [ r |-> {}, err |-> "cloud provider is required" ]
    ELSE IF cloudGroup = "nil"
    THEN [ r |-> {}, err |-> "cloud group is required" ]
    ELSE [ r |-> {[ Cloud |-> cloud, CloudGroup |-> cloudGroup ]}, err |-> "nil" ]

\* the orchestrator of a RollingUpdate that is called on its own: none
NoOrchestrator == [ groups |-> << >>, order |-> << >>, pos |-> 0, failFast |-> TRUE, trace |-> << >> ]

\* the cloud group the caller holds has at most this many members; a nil one
\* has no member lists
GroupSizes == IF args.cloudGroup = "nil" THEN {0} ELSE 0..MaxMembers

Init ==
    /\ args \in [ cloud : {"nil", "cloud"}, cloudGroup : {"nil", "group"},
                  rollingUpdateDataNil : BOOLEAN, instanceGroupListNil : BOOLEAN,
                  isBastion : BOOLEAN, validationTimeout : ValidationTimeouts,
                  maxFaults : {MaxFaults},
                  entry : {"RollingUpdate"} ]
    /\ orch = NoOrchestrator
    /\ engine = NewRollingUpdateInstanceGroup(args.cloud, args.cloudGroup)
    /\ rollingUpdateData \in IF args.rollingUpdateDataNil THEN {ZeroSession} ELSE Sessions
    /\ DrainAndValidate \in BOOLEAN
    /\ \E n \in GroupSizes : NeedUpdate \in Members(0, n)
    /\ \E n \in GroupSizes : n <= MaxMembers - Len(NeedUpdate) /\ Ready \in Members(Len(NeedUpdate), n)
    /\ apiNodes \in SUBSET (RegisteredNames(NeedUpdate) \cup RegisteredNames(Ready))
    /\ update = << >>
    /\ idx = 0
    /\ pc = "start"
    /\ clock = 0
    /\ nextTick = 0
    /\ log = << >>
    /\ result = "running"
    /\ err = ""
    /\ exitCode = 0
    /\ faults = 0

----------------------------------------------------------------------------
(* Helpers of RollingUpdate *)

\* the member the loop is at
u == update[idx]

\* return err
ReturnError(e) ==
    /\ pc' = "done"
    /\ result' = "error"
    /\ err' = e

\* a loop that takes the same member again
NextMemberAgain ==
    /\ pc' = "drain"
    /\ UNCHANGED <<idx, result, err>>

\* the end of one iteration of `for _, u := range update`, and `return nil`
\* after the last one
NextMember ==
    IF idx < Len(update)
    THEN /\ idx' = idx + 1
         /\ pc' = "drain"
         /\ UNCHANGED <<result, err>>
    ELSE /\ pc' = "done"
         /\ result' = "nil"
         /\ UNCHANGED <<idx, err>>

\* validation.ValidateCluster as ValidateCluster sees it: only the error counts
ValidateClusterFails(answer) == answer = "err"

\* tryValidateCluster looking at the error only, as ValidateCluster does
tryValidateClusterIgnoringFailures(answer) == answer # "err"

\* validation.ValidateCluster as tryValidateCluster sees it
tryValidateClusterOK(answer) == answer = "pass"

\* apierrors.IsNotFound(err)
IsNotFound(answer) == answer = "notfound"

\* deleteNode without the IsNotFound case
deleteNodeStrict(answer) == IF answer # "ok" THEN "error deleting node" ELSE "nil"

\* deleteNode with every error of the API dropped
deleteNodeLenient(answer) == "nil"

\* deleteNode: the error it returns for the answer of Nodes().Delete
deleteNode(answer) ==
    IF answer # "ok"
    THEN IF IsNotFound(answer) THEN "nil" ELSE "error deleting node"
    ELSE "nil"

\* the answers that count as a failed call
FaultAnswers == {"err", "failures"}

\* the answers of `all` a collaborator can still give: failures only while
\* fewer calls have failed than the run allows
Answers(all) == IF faults < args.maxFaults THEN all ELSE all \ FaultAnswers

\* the call has been answered
Answered(answer) == faults' = IF answer \in FaultAnswers THEN faults + 1 ELSE faults

\* the call is recorded with its answer
Issue(op, m, answer) ==
    /\ log' = Append(log, Call(op, m, answer))
    /\ Answered(answer)

\* Nodes().Delete(name) on an API that holds `nodes` and does not fail
ApiDelete(nodes, name) ==
    [ answer |-> IF name \in nodes THEN "ok" ELSE "notfound",
      nodes  |-> nodes \ {name} ]

\* what Nodes().Delete(name) can answer: a fault, or what the API's state says
DeleteAnswers(name) == Answers({"err", ApiDelete(apiNodes, name).answer})

\* the update set without the Ready members whatever Force says
UpdateSetNeverForced == NeedUpdate

\* the update set with the Ready members appended whatever Force says
UpdateSetAlwaysForced == NeedUpdate \o Ready

\* update := r.CloudGroup.NeedUpdate, plus r.CloudGroup.Ready when Force is set
UpdateSet == IF rollingUpdateData.Force THEN NeedUpdate \o Ready ELSE NeedUpdate

\* the lists of r.CloudGroup had the code assigned the appended slice to
\* r.CloudGroup.NeedUpdate
CloudGroupAssignedAppend == [ NeedUpdate |-> UpdateSet, Ready |-> Ready ]

\* the lists of r.CloudGroup after `update = append(update, r.CloudGroup.Ready...)`:
\* the result goes to the local `update`, the two slices of the group keep
\* their length and their elements
CloudGroupAfterAppend == [ NeedUpdate |-> NeedUpdate, Ready |-> Ready ]

\* the loop body without the pacing delay
FollowingWithoutPacing(step) ==
    CASE step = "drain"      -> "nodeDelete"
      [] step = "nodeDelete" -> "terminate"
      [] step = "terminate"  -> "validate"
      [] step = "sleep"      -> "validate"
      [] step = "validate"   -> "prompt"

\* the loop body without the validation after the pacing delay
FollowingWithoutValidation(step) ==
    CASE step = "drain"      -> "nodeDelete"
      [] step = "nodeDelete" -> "terminate"
      [] step = "terminate"  -> "sleep"
      [] step = "sleep"      -> "prompt"
      [] step = "validate"   -> "prompt"

\* the loop body with the instance terminated before its node is deleted
FollowingTerminateFirst(step) ==
    CASE step = "drain"      -> "terminate"
      [] step = "terminate"  -> "nodeDelete"
      [] step = "nodeDelete" -> "sleep"
      [] step = "sleep"      -> "validate"
      [] step = "validate"   -> "prompt"

\* the order of the statements of the loop body: the step that follows `step`
Following(step) ==
    CASE step = "drain"      -> "nodeDelete"
      [] step = "nodeDelete" -> "terminate"
      [] step = "terminate"  -> "sleep"
      [] step = "sleep"      -> "validate"
      [] step = "validate"   -> "prompt"

\* if rollingUpdateData.FailOnValidate, after the validation before the loop
PreFlightFatal == rollingUpdateData.FailOnValidate

\* a drain error that ends the run whatever the session says
DrainErrorAlwaysFatal == TRUE

\* a drain error that ends the run unless FailOnDrainError is set
DrainErrorFatalUnlessSet == ~rollingUpdateData.FailOnDrainError

\* if rollingUpdateData.FailOnDrainError, after DrainNode
DrainErrorFatal == rollingUpdateData.FailOnDrainError

\* a validation timeout that ends the run whatever the session says
PostValidateAlwaysFatal == TRUE

\* if rollingUpdateData.FailOnValidate, after ValidateClusterWithDuration
PostValidateFatal == rollingUpdateData.FailOnValidate

\* DeleteInstance with the error of the cloud dropped
DeleteInstanceNeverFails(answer) == FALSE

\* r.DeleteInstance(u): the error of r.Cloud.DeleteInstance(u), wrapped
DeleteInstanceFails(answer) == answer # "ok"

\* the branch taken as if the feature flag were always enabled
ModeIgnoringFlag ==
    IF args.isBastion THEN "bastion"
    ELSE IF rollingUpdateData.CloudOnly THEN "cloudonly"
    ELSE "validate"

\* the branch without its isBastion case
ModeWithoutBastion ==
    IF rollingUpdateData.CloudOnly THEN "cloudonly"
    ELSE IF DrainAndValidate THEN "validate"
    ELSE "none"

\* the branch without its CloudOnly case
ModeWithoutCloudOnly ==
    IF args.isBastion THEN "bastion"
    ELSE IF DrainAndValidate THEN "validate"
    ELSE "none"

\* the branch `isBastion / CloudOnly / feature flag` the loop takes three times
Mode ==
    IF args.isBastion THEN "bastion"
    ELSE IF rollingUpdateData.CloudOnly THEN "cloudonly"
    ELSE IF DrainAndValidate THEN "validate"
    ELSE "none"

----------------------------------------------------------------------------
(* RollingUpdate, one action per external call *)

\* the argument checks without the one of the Kubernetes client
ArgumentErrorWithoutClientCheck ==
    IF args.rollingUpdateDataNil
    THEN "rollingUpdate cannot be nil"
    ELSE IF args.instanceGroupListNil
    THEN "rollingUpdate is missing the InstanceGroupList"
    ELSE "nil"

\* the argument checks RollingUpdate starts with: the error of the first one
\* that fails, "nil" when all pass
ArgumentError ==
    IF args.rollingUpdateDataNil
    THEN "rollingUpdate cannot be nil"
    ELSE IF rollingUpdateData.K8sClient = "nil" /\ ~rollingUpdateData.CloudOnly
    THEN "rollingUpdate is missing a k8s client"
    ELSE IF args.instanceGroupListNil
    THEN "rollingUpdate is missing the InstanceGroupList"
    ELSE "nil"

\* the argument checks and the update set; RollingUpdate is a method of the
\* engine, called on the one NewRollingUpdateInstanceGroup returned
Begin ==
    /\ pc = "start"
    /\ engine.r # {}
    /\ UNCHANGED <<orch, engine, rollingUpdateData, args, DrainAndValidate, exitCode,
                   apiNodes, clock, nextTick, log, faults>>
    /\ IF ArgumentError # "nil"
       THEN ReturnError(ArgumentError) /\ UNCHANGED <<update, idx, NeedUpdate, Ready>>
       ELSE LET upd == UpdateSet
            IN  /\ update' = upd
                /\ NeedUpdate' = CloudGroupAfterAppend.NeedUpdate
                /\ Ready' = CloudGroupAfterAppend.Ready
                /\ IF Len(upd) = 0
                   THEN /\ pc' = "done"
                        /\ result' = "nil"
                        /\ UNCHANGED <<idx, err>>
                   ELSE /\ pc' = "preflight"
                        /\ UNCHANGED <<idx, result, err>>

\* the validation before the loop
PreFlight ==
    /\ pc = "preflight"
    /\ UNCHANGED <<orch, engine, rollingUpdateData, args, DrainAndValidate, NeedUpdate, Ready, exitCode,
                   apiNodes, update, clock, nextTick>>
    /\ IF Mode = "validate"
       THEN \E answer \in Answers({"pass", "failures", "err"}) :
              /\ Issue("ValidateCluster", 0, answer)
              /\ IF ValidateClusterFails(answer) /\ PreFlightFatal
                 THEN ReturnError("error validating cluster") /\ UNCHANGED idx
                 ELSE /\ idx' = 1
                      /\ pc' = "drain"
                      /\ UNCHANGED <<result, err>>
       ELSE /\ idx' = 1
            /\ pc' = "drain"
            /\ UNCHANGED <<log, faults, result, err>>

\* DrainNode without its check of the node's name
DrainNodeArgumentErrorWithoutNameCheck(member) ==
    IF rollingUpdateData.K8sClient = "nil" THEN "K8sClient not set"
    ELSE IF member.Node = NoNode THEN "node not set"
    ELSE "nil"

\* the checks DrainNode makes before any call: the error it returns ("nil": none)
DrainNodeArgumentError(member) ==
    IF rollingUpdateData.K8sClient = "nil" THEN "K8sClient not set"
    ELSE IF member.Node = NoNode THEN "node not set"
    ELSE IF member.Node = "" THEN "node name not set"
    ELSE "nil"

\* DrainNode returns e ("nil": no error): to the loop of RollingUpdate, which
\* returns on an error when FailOnDrainError is set and goes on otherwise; or,
\* called on its own, to a caller that keeps what it returned
DrainNodeReturns(e) ==
    IF args.entry = "DrainNode"
    THEN IF e = "nil"
         THEN pc' = "done" /\ result' = "nil" /\ UNCHANGED err
         ELSE ReturnError(e)
    ELSE IF e # "nil" /\ DrainErrorFatal
         THEN ReturnError("failed to drain node")
         ELSE pc' = Following("drain") /\ UNCHANGED <<result, err>>

\* the drain step up to and including the cordon of DrainNode
Cordon ==
    /\ pc = "drain"
    /\ UNCHANGED <<orch, engine, rollingUpdateData, args, DrainAndValidate, NeedUpdate, Ready, exitCode,
                   apiNodes, update, idx, clock, nextTick>>
    /\ IF args.entry = "DrainNode" \/ (Mode = "validate" /\ u.Node # NoNode)
       THEN IF DrainNodeArgumentError(u) # "nil"
            THEN \* DrainNode returns before any call
                 /\ UNCHANGED <<log, faults>>
                 /\ DrainNodeReturns(DrainNodeArgumentError(u))
            ELSE \E answer \in Answers({"ok", "err"}) :
                   /\ Issue("Cordon", idx, answer)
                   /\ IF answer = "ok"
                      THEN pc' = "evict" /\ UNCHANGED <<result, err>>
                      ELSE DrainNodeReturns("error cordoning node")
       ELSE /\ pc' = Following("drain")
            /\ UNCHANGED <<log, faults, result, err>>

\* the rest of DrainNode: RunNodeDrain and the post-drain delay
Evict ==
    /\ pc = "evict"
    /\ UNCHANGED <<orch, engine, rollingUpdateData, args, DrainAndValidate, NeedUpdate, Ready, exitCode,
                   apiNodes, update, idx, clock, nextTick>>
    /\ \E answer \in Answers({"ok", "err"}) :
         IF answer = "ok"
         THEN /\ log' = IF rollingUpdateData.PostDrainDelay > 0
                        THEN log \o <<Call("RunNodeDrain", idx, answer),
                                      Call("PostDrainSleep", idx, "ok")>>
                        ELSE Append(log, Call("RunNodeDrain", idx, answer))
              /\ UNCHANGED faults
              /\ DrainNodeReturns("nil")
         ELSE /\ Issue("RunNodeDrain", idx, answer)
              /\ DrainNodeReturns("error draining node")

\* the removal of the Node object from the Kubernetes API
NodeDelete ==
    /\ pc = "nodeDelete"
    /\ UNCHANGED <<orch, engine, rollingUpdateData, args, DrainAndValidate, NeedUpdate, Ready, exitCode,
                   update, idx, clock, nextTick>>
    /\ IF ~args.isBastion /\ ~rollingUpdateData.CloudOnly /\ u.Node # NoNode
       THEN \E answer \in DeleteAnswers(u.Node) :
              /\ Issue("NodeDelete", idx, answer)
              /\ apiNodes' = IF answer = "err" THEN apiNodes
                              ELSE ApiDelete(apiNodes, u.Node).nodes
              /\ IF deleteNode(answer) # "nil"
                 THEN ReturnError("error deleting node")
                 ELSE pc' = Following("nodeDelete") /\ UNCHANGED <<result, err>>
       ELSE /\ pc' = Following("nodeDelete")
            /\ UNCHANGED <<apiNodes, log, faults, result, err>>

\* r.DeleteInstance(u)
DeleteInstance ==
    /\ pc = "terminate"
    /\ UNCHANGED <<orch, engine, rollingUpdateData, args, DrainAndValidate, NeedUpdate, Ready, exitCode,
                   apiNodes, update, idx, clock, nextTick>>
    /\ \E answer \in Answers({"ok", "err"}) :
         /\ Issue("DeleteInstance", idx, answer)
         /\ IF DeleteInstanceFails(answer)
            THEN ReturnError("error deleting instance")
            ELSE pc' = Following("terminate") /\ UNCHANGED <<result, err>>

\* time.Sleep(sleepAfterTerminate) and the branch after it
Sleep ==
    /\ pc = "sleep"
    /\ UNCHANGED <<orch, engine, rollingUpdateData, args, DrainAndValidate, NeedUpdate, Ready, exitCode,
                   apiNodes, update, clock, nextTick>>
    /\ Issue("Sleep", idx, "ok")
    /\ IF Mode = "bastion"
       THEN NextMember
       ELSE IF Mode = "validate"
       THEN pc' = Following("sleep") /\ UNCHANGED <<idx, result, err>>
       ELSE pc' = "prompt" /\ UNCHANGED <<idx, result, err>>

\* the first attempt of ValidateClusterWithDuration, made before the timers start
TryValidate ==
    /\ pc = "validate"
    /\ UNCHANGED <<orch, engine, rollingUpdateData, args, DrainAndValidate, NeedUpdate, Ready, exitCode,
                   apiNodes, update, idx, result, err>>
    /\ \E answer \in Answers({"pass", "failures", "err"}) :
         /\ Issue("Validate", idx, answer)
         /\ IF tryValidateClusterOK(answer)
            THEN /\ pc' = "prompt"
                 /\ UNCHANGED <<clock, nextTick>>
            ELSE \* timeout := time.After(duration); tick := time.Tick(tickDuration)
                 /\ pc' = "poll"
                 /\ clock' = 0
                 /\ nextTick' = TickDuration

\* a timeout channel made anew by every select: it fires `duration` after the
\* select began
TimeoutDeadlineRestarted == clock + args.validationTimeout

\* timeout := time.After(duration), made once before the loop: the time, counted
\* from there, at which the channel becomes ready
TimeoutDeadline == args.validationTimeout

\* a select that waits for the tick whatever the timeout
SelectTimeOfTick == Max(clock, nextTick)

\* the time at which the select of the polling loop receives: now if a channel
\* is ready, else when the first one becomes ready
SelectTime == Max(clock, Min(TimeoutDeadline, nextTick))

\* case <-tick
PollTick ==
    /\ pc = "poll"
    /\ nextTick <= SelectTime
    /\ UNCHANGED <<orch, engine, rollingUpdateData, args, DrainAndValidate, NeedUpdate, Ready, exitCode,
                   apiNodes, update, idx, result, err>>
    /\ \E answer \in Answers({"pass", "failures", "err"}), latency \in Latencies :
         /\ Issue("Validate", idx, answer)
         /\ clock' = SelectTime + latency
         /\ nextTick' = ((SelectTime \div TickDuration) + 1) * TickDuration
         /\ pc' = IF tryValidateClusterOK(answer) THEN "prompt" ELSE "poll"

\* case <-tick with an attempt that fails after the log has taken the failed
\* calls it records: the attempt is made, the validator does not pass, and the
\* loop goes round again. Once the timeout has elapsed the times are kept up to
\* a shift by two whole ticks, which changes neither which channel is ready nor
\* when the next tick comes
PollTickUnrecorded ==
    /\ pc = "poll"
    /\ nextTick <= SelectTime
    /\ faults >= args.maxFaults
    /\ UNCHANGED <<orch, engine, rollingUpdateData, args, DrainAndValidate, NeedUpdate, Ready, exitCode,
                   apiNodes, update, idx, result, err, log, faults, pc>>
    /\ \E latency \in Latencies :
         LET c == SelectTime + latency
             n == ((SelectTime \div TickDuration) + 1) * TickDuration
             k == IF c >= args.validationTimeout
                  THEN ((c - args.validationTimeout) \div (2 * TickDuration)) * 2
                  ELSE 0
         IN  /\ clock' = c - k * TickDuration
             /\ nextTick' = n - k * TickDuration

\* case <-timeout, and what RollingUpdate does with the error
PollTimeout ==
    /\ pc = "poll"
    /\ TimeoutDeadline <= SelectTime
    /\ UNCHANGED <<orch, engine, rollingUpdateData, args, DrainAndValidate, NeedUpdate, Ready, exitCode,
                   apiNodes, update, idx, clock, nextTick>>
    /\ log' = Append(log, Call("ValidateTimeout", idx, "err"))
    /\ UNCHANGED faults
    /\ IF PostValidateFatal
       THEN ReturnError("error validating cluster after removing a node")
       ELSE pc' = "prompt" /\ UNCHANGED <<result, err>>

\* the lines the operator can type, as sequences of characters
PromptInputs ==
    { << >>, <<"y">>, <<"n">>, <<"N", " ">>, <<"a">>, <<" ", "A">>, <<"n", "o">> }

RECURSIVE TrimLeft(_)
TrimLeft(s) == IF Len(s) > 0 /\ Head(s) = " " THEN TrimLeft(Tail(s)) ELSE s

RECURSIVE TrimRight(_)
TrimRight(s) ==
    IF Len(s) > 0 /\ s[Len(s)] = " " THEN TrimRight(SubSeq(s, 1, Len(s) - 1)) ELSE s

\* strings.TrimSpace
TrimSpace(s) == TrimRight(TrimLeft(s))

\* strings.ToLower, on the letters the inputs use
ToLower(s) ==
    [ i \in 1..Len(s) |->
        IF s[i] = "Y" THEN "y" ELSE IF s[i] = "N" THEN "n"
        ELSE IF s[i] = "A" THEN "a" ELSE s[i] ]

\* promptInteractive comparing the trimmed line as typed, without ToLower
promptInteractiveCaseSensitive(input) ==
    LET val == TrimSpace(input)
    IN  IF val = <<"n">> THEN "stop"
        ELSE IF val = <<"a">> THEN "always"
        ELSE "continue"

\* promptInteractive: "stop" (os.Exit), "always" (stopPrompting) or "continue"
promptInteractive(input) ==
    LET val == ToLower(TrimSpace(input))
    IN  IF val = <<"n">> THEN "stop"
        ELSE IF val = <<"a">> THEN "always"
        ELSE "continue"

\* a gate that leaves the flag as it is whatever the operator answered
InteractiveAfterIgnoringAnswer(answer) == rollingUpdateData.Interactive

\* if stopPrompting { rollingUpdateData.Interactive = false }
InteractiveAfter(answer) ==
    IF answer = "always" THEN FALSE ELSE rollingUpdateData.Interactive

\* a gate that writes a fresh session with only the interactive flag kept
SessionResetAfter(answer) ==
    [ZeroSession EXCEPT !.Interactive = InteractiveAfter(answer)]

\* the session the pointer rollingUpdateData leads to after the gate: the
\* assignment at the gate writes the field Interactive and no other
SessionAfter(answer) ==
    [rollingUpdateData EXCEPT !.Interactive = InteractiveAfter(answer)]

\* a gate that goes on to the next member when the answer could not be read
PromptNeverFails(scanErr) == FALSE

\* stopPrompting, err := promptInteractive(...); if err != nil { return err }
PromptFails(scanErr) == scanErr # "nil"

\* the interactive gate at the end of an iteration
Prompt ==
    /\ pc = "prompt"
    /\ UNCHANGED <<orch, engine, args, DrainAndValidate, NeedUpdate, Ready, apiNodes, update,
                   clock, nextTick>>
    /\ IF rollingUpdateData.Interactive
       THEN \/ \* scanner.Err() != nil
               /\ faults < args.maxFaults
               /\ Issue("Prompt", idx, "err")
               /\ IF PromptFails("err")
                  THEN ReturnError("unable to interpret input") /\ UNCHANGED idx
                  ELSE NextMember
               /\ UNCHANGED <<rollingUpdateData, exitCode>>
            \/ \E input \in PromptInputs :
                 LET answer == promptInteractive(input)
                 IN  /\ Issue("Prompt", idx, answer)
                     /\ IF answer = "stop"
                        THEN /\ pc' = "exited"
                             /\ result' = "exit"
                             /\ exitCode' = ExitCode
                             /\ UNCHANGED <<rollingUpdateData, idx, err>>
                        ELSE /\ rollingUpdateData' = SessionAfter(answer)
                             /\ NextMember
                             /\ UNCHANGED exitCode
       ELSE /\ NextMember
            /\ UNCHANGED <<rollingUpdateData, log, faults, exitCode>>

Next ==
    \/ Begin
    \/ PreFlight
    \/ Cordon
    \/ Evict
    \/ NodeDelete
    \/ DeleteInstance
    \/ Sleep
    \/ TryValidate
    \/ PollTick
    \/ PollTimeout
    \/ Prompt

Spec == Init /\ [][Next]_vars

\* RollingUpdate with a validator that can fail without limit
NextFair ==
    \/ Next
    \/ PollTickUnrecorded

\* the run goes on while it can: every call returns and every prompt is
\* answered; and a select with the timeout channel ready at every round takes
\* it in the end, the choice among ready cases being uniformly random
SpecFair == Init /\ [][NextFair]_vars /\ WF_vars(NextFair) /\ WF_vars(PollTimeout)

----------------------------------------------------------------------------
(* ValidateClusterWithDuration called on its own *)

\* the durations ValidateClusterWithDuration is called with, in seconds: none,
\* less than a tick, between one tick and two, two ticks
PollDurations == {0, 25, 35, 60}

\* the state in which ValidateClusterWithDuration has just been called, for
\* the one member of a group that takes the validating branch
InitValidate ==
    /\ args \in [ cloud : {"cloud"}, cloudGroup : {"group"},
                  rollingUpdateDataNil : {FALSE}, instanceGroupListNil : {FALSE},
                  isBastion : {FALSE}, validationTimeout : PollDurations,
                  maxFaults : {MaxPollFaults},
                  entry : {"RollingUpdate"} ]
    /\ orch = NoOrchestrator
    /\ engine = NewRollingUpdateInstanceGroup(args.cloud, args.cloudGroup)
    /\ rollingUpdateData \in { s \in Sessions : /\ s.K8sClient = "client"
                                                /\ ~s.CloudOnly
                                                /\ ~s.Force
                                                /\ ~s.FailOnDrainError
                                                /\ s.PostDrainDelay = 0 }
    /\ DrainAndValidate = TRUE
    /\ NeedUpdate \in Members(0, 1)
    /\ Ready = << >>
    /\ apiNodes = {}
    /\ update = NeedUpdate
    /\ idx = 1
    /\ pc = "validate"
    /\ clock = 0
    /\ nextTick = 0
    /\ log = << >>
    /\ result = "running"
    /\ err = ""
    /\ exitCode = 0
    /\ faults = 0

\* the steps of ValidateClusterWithDuration
NextValidate ==
    \/ TryValidate
    \/ PollTick
    \/ PollTimeout

SpecValidate == InitValidate /\ [][NextValidate]_vars

\* ValidateClusterWithDuration with a validator that can fail without limit
NextValidateFair ==
    \/ NextValidate
    \/ PollTickUnrecorded

\* every validator call returns, and a select with the timeout channel ready at
\* every round takes it in the end
SpecValidateFair ==
    InitValidate /\ [][NextValidateFair]_vars /\ WF_vars(NextValidateFair) /\ WF_vars(PollTimeout)

----------------------------------------------------------------------------
(* DrainNode called on its own *)

\* what u.Node can be when DrainNode is called: nil, a Node without a name, a
\* Node with one
DrainNodeMembers ==
    { <<[ID |-> 1, Node |-> n]>> : n \in {NoNode, "", NodeNameOf(1)} }

\* the state in which DrainNode has just been called for a member, with any
\* session
InitDrain ==
    /\ args \in [ cloud : {"cloud"}, cloudGroup : {"group"},
                  rollingUpdateDataNil : {FALSE}, instanceGroupListNil : {FALSE},
                  isBastion : {FALSE}, validationTimeout : ValidationTimeouts,
                  maxFaults : {MaxFaults},
                  entry : {"DrainNode"} ]
    /\ orch = NoOrchestrator
    /\ engine = NewRollingUpdateInstanceGroup(args.cloud, args.cloudGroup)
    /\ rollingUpdateData \in Sessions
    /\ DrainAndValidate \in BOOLEAN
    /\ NeedUpdate \in DrainNodeMembers
    /\ Ready = << >>
    /\ apiNodes = RegisteredNames(NeedUpdate)
    /\ update = NeedUpdate
    /\ idx = 1
    /\ pc = "drain"
    /\ clock = 0
    /\ nextTick = 0
    /\ log = << >>
    /\ result = "running"
    /\ err = ""
    /\ exitCode = 0
    /\ faults = 0

\* the steps of DrainNode
NextDrain ==
    \/ Cordon
    \/ Evict

SpecDrain == InitDrain /\ [][NextDrain]_vars

----------------------------------------------------------------------------
(* The update orchestrator: RollingUpdate run group after group, with one
   session *)

\* at most this many groups in the cluster
MaxGroups == 3

\* at most this many calls to collaborators fail in one orchestrated update
MaxOrchFaults == 1

\* the roles of instance groups
Roles == {"Bastion", "Master", "Node"}

\* the groups of a role are processed in the order of their role's rank
RoleRankMastersFirst(role) ==
    CASE role = "Master" -> 1 [] role = "Bastion" -> 2 [] role = "Node" -> 3

\* bastions first, then masters, then nodes
RoleRank(role) ==
    CASE role = "Bastion" -> 1 [] role = "Master" -> 2 [] role = "Node" -> 3

\* the permutations of 1..n
PermsOf(n) == { p \in [1..n -> 1..n] : \A i, j \in 1..n : p[i] = p[j] => i = j }

\* the orders the orchestrator can process the groups in: by role, the groups
\* of one role in any order
Orders(groups) ==
    { p \in PermsOf(Len(groups)) :
        \A i, j \in 1..Len(groups) :
            i < j => RoleRank(groups[p[i]].role) <= RoleRank(groups[p[j]].role) }

\* the clusters: up to MaxGroups groups, group k with the one stale member k,
\* whose node is registered
Clusters ==
    UNION { { g \in [1..n -> [role : Roles, NeedUpdate : UNION { Members(k - 1, 1) : k \in 1..n },
                                Ready : {<< >>}]] :
                \A k \in 1..n : /\ g[k].NeedUpdate \in Members(k - 1, 1)
                                 /\ g[k].NeedUpdate[1].Node # NoNode }
            : n \in 1..MaxGroups }

InitGroups ==
    /\ orch \in [ groups : Clusters, order : {<< >>}, pos : {0}, failFast : BOOLEAN,
                   trace : {<< >>} ]
    /\ args \in [ cloud : {"cloud"}, cloudGroup : {"group"},
                  rollingUpdateDataNil : {FALSE}, instanceGroupListNil : {FALSE},
                  isBastion : {FALSE}, validationTimeout : {TickDuration},
                  maxFaults : {MaxOrchFaults},
                  entry : {"RollingUpdate"} ]
    /\ engine = NewRollingUpdateInstanceGroup("nil", "nil")
    /\ rollingUpdateData \in { s \in Sessions : /\ s.K8sClient = "client"
                                                /\ ~s.CloudOnly
                                                /\ ~s.Force
                                                /\ ~s.FailOnDrainError
                                                /\ s.PostDrainDelay = 0 }
    /\ DrainAndValidate \in BOOLEAN
    /\ NeedUpdate = << >>
    /\ Ready = << >>
    /\ apiNodes = UNION { RegisteredNames(orch.groups[k].NeedUpdate) : k \in 1..Len(orch.groups) }
    /\ update = << >>
    /\ idx = 0
    /\ pc = "orchestrate"
    /\ clock = 0
    /\ nextTick = 0
    /\ log = << >>
    /\ result = "running"
    /\ err = ""
    /\ exitCode = 0
    /\ faults = 0

\* the orchestrator decides the order of the groups
Orchestrate ==
    /\ pc = "orchestrate"
    /\ \E p \in Orders(orch.groups) : orch' = [orch EXCEPT !.order = p]
    /\ pc' = "next"
    /\ UNCHANGED <<engine, rollingUpdateData, args, DrainAndValidate, NeedUpdate, Ready,
                   apiNodes, update, idx, clock, nextTick, log, result, err, exitCode, faults>>

\* the orchestrator creates the engine of the next group and calls its
\* RollingUpdate with the session, or finishes after the last group
RunGroup ==
    /\ pc = "next"
    /\ UNCHANGED <<rollingUpdateData, DrainAndValidate, apiNodes, clock, nextTick, log,
                   exitCode, faults>>
    /\ IF orch.pos < Len(orch.order)
       THEN LET g == orch.groups[orch.order[orch.pos + 1]]
            IN  /\ orch' = [orch EXCEPT !.pos = @ + 1,
                                        !.trace = Append(@, <<"begin", orch.order[orch.pos + 1]>>)]
                /\ engine' = NewRollingUpdateInstanceGroup(args.cloud, args.cloudGroup)
                /\ args' = [args EXCEPT !.isBastion = (g.role = "Bastion")]
                /\ NeedUpdate' = g.NeedUpdate
                /\ Ready' = g.Ready
                /\ update' = << >>
                /\ idx' = 0
                /\ pc' = "start"
                /\ result' = "running"
                /\ err' = ""
       ELSE /\ pc' = "finished"
            /\ UNCHANGED <<orch, engine, args, NeedUpdate, Ready, update, idx, result, err>>

\* RollingUpdate has returned to the orchestrator: a failure ends the update
\* when the caller fails fast, else the next group follows
GroupReturned ==
    /\ pc = "done"
    /\ orch' = [orch EXCEPT !.trace = Append(@, <<"end", orch.order[orch.pos]>>)]
    /\ pc' = IF result = "error" /\ orch.failFast THEN "finished" ELSE "next"
    /\ UNCHANGED <<engine, rollingUpdateData, args, DrainAndValidate, NeedUpdate, Ready,
                   apiNodes, update, idx, clock, nextTick, log, result, err, exitCode, faults>>

NextGroups ==
    \/ Orchestrate
    \/ RunGroup
    \/ GroupReturned
    \/ Next

SpecGroups == InitGroups /\ [][NextGroups]_vars

----------------------------------------------------------------------------
(* Reading the log *)

TypeOK == result \in {"running", "nil", "error", "exit"}

\* the positions of the log
Pos == 1..Len(log)

\* the arguments pass the checks RollingUpdate starts with
ArgsValid ==
    /\ ~args.rollingUpdateDataNil
    /\ ~(rollingUpdateData.K8sClient = "nil" /\ ~rollingUpdateData.CloudOnly)
    /\ ~args.instanceGroupListNil

\* the run has ended: RollingUpdate returned, or the process exited
Ended == pc \in {"done", "exited"}

\* how many calls of the log satisfy Test
Count(Test(_)) == Cardinality({ i \in Pos : Test(log[i]) })

\* the kinds of step the ordering of one member's calls is stated over
StepKind(op) ==
    CASE op \in {"Cordon", "RunNodeDrain", "PostDrainSleep"} -> 1
      [] op = "NodeDelete"                                   -> 2
      [] op = "DeleteInstance"                               -> 3
      [] op = "Sleep"                                        -> 4
      [] op \in {"Validate", "ValidateTimeout"}              -> 5
      [] OTHER                                               -> 0

\* a cordon or an eviction that failed
IsDrainFailure(c) == c.op \in {"Cordon", "RunNodeDrain"} /\ c.res = "err"

\* a validation that failed: the one before the loop, or a timeout after a
\* termination
IsValidationFailure(c) ==
    \/ c.op = "ValidateCluster" /\ c.res \in {"err", "failures"}
    \/ c.op = "ValidateTimeout"

\* a prompt that ended the run: the operator answered n, or the read failed
IsPromptEnd(c) == c.op = "Prompt" /\ c.res \in {"stop", "err"}

\* DeleteInstance succeeded for every member of the update set
AllTerminated ==
    \A m \in 1..Len(update) : \E i \in Pos : log[i] = Call("DeleteInstance", m, "ok")

\* the node names of the group's members
GroupNodeNames == RegisteredNames(NeedUpdate) \cup RegisteredNames(Ready)

----------------------------------------------------------------------------
(* The claims *)

\* C1: a DeleteInstance that fails for member k is the last call of the run:
\* RollingUpdate has returned its error, the loop stands at k, and the log
\* holds no call for a member after k, whatever the flags of the session.
C1_TerminationFailureHalts ==
    \A i \in Pos :
        (log[i].op = "DeleteInstance" /\ log[i].res = "err") =>
            /\ i = Len(log)
            /\ pc = "done"
            /\ result = "error"
            /\ err = "error deleting instance"
            /\ idx = log[i].m
            /\ \A j \in Pos : log[j].m <= log[i].m

\* C1 witness: DeleteInstance failed for a member that is not the last one, in
\* an interactive session that ignores drain and validation failures
C1_Witness ==
    /\ Len(log) > 0
    /\ log[Len(log)].op = "DeleteInstance"
    /\ log[Len(log)].res = "err"
    /\ log[Len(log)].m < Len(update)
    /\ rollingUpdateData.Interactive
    /\ ~rollingUpdateData.FailOnValidate
    /\ ~rollingUpdateData.FailOnDrainError
    /\ result = "error"

\* the calls of member m that belong to one of the five kinds of step, in the
\* order they were issued
StepsOf(m) == SelectSeq(log, LAMBDA c : c.m = m /\ StepKind(c.op) > 0)

\* C2: the calls of one member are ordered drain calls, node deletion,
\* DeleteInstance, pacing delay, validation attempts: along the calls of a
\* member the kind of step never decreases, and it increases after the node
\* deletion, after the termination and after the pacing delay, each of which
\* therefore happens at most once.
C2_PerMemberOrder ==
    \A m \in 1..Len(update) :
        LET steps == StepsOf(m)
        IN  \A i \in 1..(Len(steps) - 1) :
                /\ StepKind(steps[i].op) <= StepKind(steps[i+1].op)
                /\ StepKind(steps[i].op) \in {2, 3, 4} =>
                      StepKind(steps[i].op) < StepKind(steps[i+1].op)

\* C2 witness: one member went through all five kinds of step
C2_Witness ==
    \E m \in 1..Len(update) :
        \A k \in 1..5 : \E i \in Pos : log[i].m = m /\ StepKind(log[i].op) = k

\* C3: with NeedUpdate empty and Force unset, a run whose arguments pass the
\* checks returns nil at once, and no run issues any call at all.
C3_NothingToUpdateIsNoOp ==
    (pc # "start" /\ NeedUpdate = << >> /\ ~rollingUpdateData.Force) =>
        /\ log = << >>
        /\ pc = "done"
        /\ ArgsValid => result = "nil"

\* C3 witness: a group with a Ready member only, Force unset, has returned nil
C3_Witness ==
    /\ NeedUpdate = << >>
    /\ Len(Ready) > 0
    /\ ~rollingUpdateData.Force
    /\ ArgsValid
    /\ pc = "done"
    /\ result = "nil"

\* C4 as stated: with FailOnValidate and FailOnDrainError unset, a run in which
\* a drain or a validation failed and no node deletion and no DeleteInstance
\* failed ends with every member of the update set terminated.
C4_Original ==
    ( /\ Ended
      /\ ~rollingUpdateData.FailOnValidate
      /\ ~rollingUpdateData.FailOnDrainError
      /\ \E i \in Pos : IsDrainFailure(log[i]) \/ IsValidationFailure(log[i])
      /\ \A i \in Pos : ~(log[i].op \in {"NodeDelete", "DeleteInstance"} /\ log[i].res = "err") )
    => AllTerminated

\* C4 amended: the same, for the runs the interactive prompt does not end (no
\* answer n, no failed read): such a run returns nil with every member of the
\* update set terminated.
C4_FailuresDoNotStopTheRun ==
    ( /\ Ended
      /\ ~rollingUpdateData.FailOnValidate
      /\ ~rollingUpdateData.FailOnDrainError
      /\ \E i \in Pos : IsDrainFailure(log[i]) \/ IsValidationFailure(log[i])
      /\ \A i \in Pos : ~(log[i].op \in {"NodeDelete", "DeleteInstance"} /\ log[i].res = "err")
      /\ \A i \in Pos : ~IsPromptEnd(log[i]) )
    => (result = "nil" /\ AllTerminated)

\* C4 witness: the validation before the loop and the drain of member 1 failed,
\* and the run returned nil with both members terminated
C4_Witness ==
    /\ result = "nil"
    /\ Len(update) = 2
    /\ ~rollingUpdateData.FailOnValidate
    /\ ~rollingUpdateData.FailOnDrainError
    /\ \E i \in Pos : log[i].op = "ValidateCluster" /\ log[i].res = "err"
    /\ \E i \in Pos : IsDrainFailure(log[i]) /\ log[i].m = 1
    /\ AllTerminated

\* the drain failure at position i ended the run before the member's node was
\* deleted and its instance terminated
DrainFailureWasFatal(i) ==
    /\ i = Len(log)
    /\ pc = "done"
    /\ result = "error"
    /\ err = "failed to drain node"
    /\ \A j \in Pos :
         log[j].m = log[i].m => log[j].op \notin {"NodeDelete", "DeleteInstance"}

\* the drain failure at position i was passed over: the member went on to its
\* node deletion and, that succeeding, to its termination
DrainFailureWasIgnored(i) ==
    /\ err # "failed to drain node"
    /\ i = Len(log) => (pc = "nodeDelete" /\ result = "running")
    /\ i < Len(log) => (log[i+1].op = "NodeDelete" /\ log[i+1].m = log[i].m)
    /\ (i + 1 = Len(log) /\ log[i+1].res # "err") => (pc = "terminate" /\ result = "running")
    /\ i + 1 < Len(log) => (log[i+2].op = "DeleteInstance" /\ log[i+2].m = log[i].m)

\* C5 as stated: a drain failure is fatal unless FailOnDrainError is set, and
\* passed over when it is set.
C5_Original ==
    \A i \in Pos :
        IsDrainFailure(log[i]) =>
            IF rollingUpdateData.FailOnDrainError
            THEN DrainFailureWasIgnored(i)
            ELSE DrainFailureWasFatal(i)

\* C5 amended: a drain failure is fatal exactly when FailOnDrainError is set
\* (RollingUpdate returns the error, the node is not deleted, the instance not
\* terminated); when it is not set the failure is only logged and the member
\* goes on to node deletion and termination.
C5_DrainFailureFatalWhenSet ==
    \A i \in Pos :
        IsDrainFailure(log[i]) =>
            IF rollingUpdateData.FailOnDrainError
            THEN DrainFailureWasFatal(i)
            ELSE DrainFailureWasIgnored(i)

\* C5 witness: with FailOnDrainError unset an eviction failed and the member
\* was terminated all the same
C5_Witness ==
    /\ ~rollingUpdateData.FailOnDrainError
    /\ \E i \in Pos :
         /\ log[i].op = "RunNodeDrain"
         /\ log[i].res = "err"
         /\ \E j \in Pos : log[j] = Call("DeleteInstance", log[i].m, "ok")

\* C6 as stated: when the validation before the loop fails (the validator
\* returns an error or a non-empty failure list), the run returns an error
\* before any member is touched if FailOnValidate is set, and starts the loop
\* if it is not.
C6_PreFlightFailure ==
    (Len(log) >= 1 /\ log[1].op = "ValidateCluster" /\ log[1].res \in {"err", "failures"}) =>
        IF rollingUpdateData.FailOnValidate
        THEN /\ Len(log) = 1
             /\ pc = "done"
             /\ result = "error"
             /\ err = "error validating cluster"
        ELSE /\ err # "error validating cluster"
             /\ Len(log) = 1 => (pc \in {"drain", "nodeDelete", "terminate"} /\ idx = 1)

\* C7: a validation timeout after the termination of member k is fatal when
\* FailOnValidate is set (the run returns the error at k and no later member
\* has a call); when it is not set the run goes on: to the prompt of member k,
\* then to member k+1, or to `return nil` after the last member.
C7_PostValidationTimeout ==
    \A i \in Pos :
        log[i].op = "ValidateTimeout" =>
            LET k == log[i].m
            IN  IF rollingUpdateData.FailOnValidate
                THEN /\ i = Len(log)
                     /\ pc = "done"
                     /\ result = "error"
                     /\ err = "error validating cluster after removing a node"
                     /\ idx = k
                     /\ \A j \in Pos : log[j].m <= k
                ELSE /\ err # "error validating cluster after removing a node"
                     /\ i = Len(log) =>
                          \/ pc = "prompt" /\ idx = k /\ result = "running"
                          \/ /\ idx = k + 1
                             /\ pc \in {"drain", "nodeDelete", "terminate"}
                             /\ result = "running"
                          \/ k = Len(update) /\ pc = "done" /\ result = "nil"
                     /\ i < Len(log) =>
                          \/ log[i+1].op = "Prompt" /\ log[i+1].m = k
                          \/ log[i+1].m = k + 1

\* C7 witness: with FailOnValidate unset the validation of member 1 timed out
\* and DeleteInstance was called for member 2
C7_Witness ==
    /\ ~rollingUpdateData.FailOnValidate
    /\ \E i \in Pos : log[i].op = "ValidateTimeout" /\ log[i].m = 1
    /\ \E j \in Pos : log[j].op = "DeleteInstance" /\ log[j].m = 2

\* C8: deleting a node the API does not hold succeeds, as often as it is done:
\* deleteNode returns nil the first and the second time and the API's nodes stay
\* as they were; and in a run, a node deletion answered not-found is followed
\* by the DeleteInstance of the same member.
C8_NodeDeleteIdempotentOnAbsence ==
    /\ \A name \in GroupNodeNames :
         name \notin apiNodes =>
            LET first  == ApiDelete(apiNodes, name)
                second == ApiDelete(first.nodes, name)
            IN  /\ deleteNode(first.answer) = "nil"
                /\ deleteNode(second.answer) = "nil"
                /\ second.nodes = apiNodes
    /\ \A i \in Pos :
         (log[i].op = "NodeDelete" /\ log[i].res = "notfound") =>
            /\ i = Len(log) => (pc = "terminate" /\ result = "running")
            /\ i < Len(log) => (log[i+1].op = "DeleteInstance" /\ log[i+1].m = log[i].m)

\* C8 witness: the node of a member was already absent, its deletion was
\* answered not-found and its instance was terminated
C8_Witness ==
    \E i \in Pos :
        /\ log[i].op = "NodeDelete"
        /\ log[i].res = "notfound"
        /\ update[log[i].m].Node \notin apiNodes
        /\ i < Len(log)
        /\ log[i+1] = Call("DeleteInstance", log[i].m, "ok")

\* C9: a node deletion that fails other than with not-found is the last call
\* of the run, whatever FailOnValidate and FailOnDrainError: RollingUpdate has
\* returned the error at member k, DeleteInstance was not called for k, and no
\* later member has a call.
C9_NodeDeleteFailureHalts ==
    \A i \in Pos :
        (log[i].op = "NodeDelete" /\ log[i].res = "err") =>
            /\ i = Len(log)
            /\ pc = "done"
            /\ result = "error"
            /\ err = "error deleting node"
            /\ idx = log[i].m
            /\ \A j \in Pos : log[j].m <= log[i].m
            /\ \A j \in Pos : ~(log[j].op = "DeleteInstance" /\ log[j].m = log[i].m)

\* C9 witness: the node deletion of a member that is not the last one failed
\* in a session that ignores drain and validation failures
C9_Witness ==
    /\ ~rollingUpdateData.FailOnValidate
    /\ ~rollingUpdateData.FailOnDrainError
    /\ Len(log) > 0
    /\ log[Len(log)].op = "NodeDelete"
    /\ log[Len(log)].res = "err"
    /\ log[Len(log)].m < Len(update)
    /\ result = "error"

\* the calls of a finished cloud-only run: one DeleteInstance and one pacing
\* delay per member of the update set, and no drain, validation or node deletion
CloudOnlyCalls ==
    /\ Count(LAMBDA c : c.op = "DeleteInstance") = Len(update)
    /\ Count(LAMBDA c : c.op = "Sleep") = Len(update)
    /\ \A i \in Pos : log[i].op \in {"DeleteInstance", "Sleep", "Prompt"}

\* C10 as stated: a cloud-only run in which no DeleteInstance failed ends with
\* the calls of CloudOnlyCalls.
C10_Original ==
    ( /\ Ended
      /\ ArgsValid
      /\ rollingUpdateData.CloudOnly
      /\ \A i \in Pos : ~(log[i].op = "DeleteInstance" /\ log[i].res = "err") )
    => CloudOnlyCalls

\* C10 amended: the same, for the runs the interactive prompt does not end (no
\* answer n, no failed read).
C10_CloudOnlyCallCounts ==
    ( /\ Ended
      /\ ArgsValid
      /\ rollingUpdateData.CloudOnly
      /\ \A i \in Pos : ~(log[i].op = "DeleteInstance" /\ log[i].res = "err")
      /\ \A i \in Pos : ~IsPromptEnd(log[i]) )
    => (result = "nil" /\ CloudOnlyCalls)

\* C10 witness: a cloud-only run without a Kubernetes client returned nil after
\* two terminations, the members having registered nodes
C10_Witness ==
    /\ rollingUpdateData.CloudOnly
    /\ rollingUpdateData.K8sClient = "nil"
    /\ ~args.isBastion
    /\ result = "nil"
    /\ Len(update) = 2
    /\ \A m \in 1..2 : update[m].Node # NoNode
    /\ Count(LAMBDA c : c.op = "DeleteInstance" /\ c.res = "ok") = 2

\* C11: in a run for a bastion group the only calls are DeleteInstance and the
\* pacing delay after it (no validation before the loop or after a termination,
\* no cordon, no eviction, no node deletion, no prompt), even for members
\* with a registered node; the loop leaves no member behind that it did not
\* terminate, and a run whose arguments pass the checks ends either with the
\* error of a failed DeleteInstance or with nil and every member of the update
\* set terminated.
C11_BastionTerminationOnly ==
    (args.isBastion /\ pc # "start") =>
        /\ \A i \in Pos : log[i].op \in {"DeleteInstance", "Sleep"}
        /\ \A m \in 1..Len(update) :
             m < idx => \E i \in Pos : log[i] = Call("DeleteInstance", m, "ok")
        /\ (Ended /\ ArgsValid) =>
             \/ result = "nil" /\ AllTerminated
             \/ /\ result = "error"
                /\ err = "error deleting instance"
                /\ log[Len(log)] = Call("DeleteInstance", idx, "err")

\* C11 witness: a bastion run with the feature flag on, a Kubernetes client and
\* an interactive session returned nil after terminating two members whose
\* nodes are registered, and the API still holds both nodes
C11_Witness ==
    /\ args.isBastion
    /\ DrainAndValidate
    /\ ~rollingUpdateData.CloudOnly
    /\ rollingUpdateData.K8sClient = "client"
    /\ rollingUpdateData.Interactive
    /\ result = "nil"
    /\ Len(update) = 2
    /\ \A m \in 1..2 : update[m].Node # NoNode /\ update[m].Node \in apiNodes
    /\ AllTerminated

\* the instance IDs of a list of members
IDs(s) == { s[i].ID : i \in 1..Len(s) }

\* the instances the claim says a run acts on
C12_Expected ==
    IDs(NeedUpdate) \cup (IF rollingUpdateData.Force THEN IDs(Ready) ELSE {})

\* C12: the members a run acts on are those of NeedUpdate, and those of Ready
\* too exactly when Force is set: every call made for a member is made for an
\* instance of that set; a run that returned nil has called DeleteInstance
\* exactly once for each instance of the set; and with Force unset no call is
\* made for an instance of Ready.
C12_UpdateSetMembers ==
    /\ \A i \in Pos : log[i].m > 0 => update[log[i].m].ID \in C12_Expected
    /\ result = "nil" =>
         \A id \in C12_Expected :
            Cardinality({ i \in Pos : /\ log[i].op = "DeleteInstance"
                                      /\ update[log[i].m].ID = id }) = 1
    /\ ~rollingUpdateData.Force =>
         \A i \in Pos : log[i].m > 0 => update[log[i].m].ID \notin IDs(Ready)

\* C12 witness: with Force set, a group with one member that needs the update
\* and one that is ready returned nil after terminating both
C12_Witness ==
    /\ rollingUpdateData.Force
    /\ Len(NeedUpdate) = 1
    /\ Len(Ready) = 1
    /\ result = "nil"
    /\ \E i, j \in Pos :
         /\ log[i].op = "DeleteInstance" /\ update[log[i].m].ID = NeedUpdate[1].ID
         /\ log[j].op = "DeleteInstance" /\ update[log[j].m].ID = Ready[1].ID

\* the errors of the argument checks of RollingUpdate
ConfigErrors ==
    { "rollingUpdate cannot be nil", "rollingUpdate is missing a k8s client",
      "rollingUpdate is missing the InstanceGroupList" }

\* C13: called with a nil session, with a nil Kubernetes client while CloudOnly
\* is unset, or with a nil instance-group list, RollingUpdate returns an error
\* of the argument checks and no call at all has been issued; and
\* NewRollingUpdateInstanceGroup given a nil cloud or a nil cloud group has
\* returned an error and no engine, so that no run was started.
C13_ConfigErrorsBeforeSideEffects ==
    /\ ( \/ args.rollingUpdateDataNil
         \/ ~args.rollingUpdateDataNil /\ rollingUpdateData.K8sClient = "nil"
                                       /\ ~rollingUpdateData.CloudOnly
         \/ args.instanceGroupListNil ) =>
            /\ log = << >>
            /\ pc # "start" =>
                 /\ pc = "done"
                 /\ result = "error"
                 /\ err \in ConfigErrors
    /\ (args.cloud = "nil" \/ args.cloudGroup = "nil") =>
            /\ engine.r = {}
            /\ engine.err \in {"cloud provider is required", "cloud group is required"}
            /\ pc = "start"
            /\ log = << >>

\* C13 witness: a run for a group with members to update, started without a
\* Kubernetes client and without CloudOnly, has returned the error
C13_Witness ==
    /\ engine.r # {}
    /\ ~args.rollingUpdateDataNil
    /\ rollingUpdateData.K8sClient = "nil"
    /\ ~rollingUpdateData.CloudOnly
    /\ Len(NeedUpdate) > 0
    /\ pc = "done"
    /\ result = "error"
    /\ err = "rollingUpdate is missing a k8s client"
    /\ log = << >>

\* ValidateClusterWithDuration has returned
PollReturned == pc \notin {"validate", "poll"}

\* it returned nil: its last attempt passed
PollReturnedNil == PollReturned /\ log[Len(log)] = Call("Validate", idx, "pass")

\* it returned the timeout error
PollReturnedTimeout == PollReturned /\ log[Len(log)].op = "ValidateTimeout"

\* the validation attempts made so far
Attempts == Count(LAMBDA c : c.op = "Validate")

\* no attempt has passed
NeverPassed == \A i \in Pos : log[i].op = "Validate" => log[i].res # "pass"

\* C14 as stated: ValidateClusterWithDuration returns nil exactly when an
\* attempt has passed, and the timeout error otherwise; no attempt follows one
\* that passed; and an attempt that passes was made before the duration
\* elapsed (at the latest at the instant it elapses), so that the call returns
\* the timeout error when every attempt made before that failed.
C14_NilIffPassedInTime ==
    /\ [](PollReturned => /\ PollReturnedNil <=> ~NeverPassed
                          /\ PollReturnedTimeout <=> NeverPassed)
    /\ [](\A i \in Pos : (log[i].op = "Validate" /\ log[i].res = "pass") => i = Len(log))
    /\ [][ (pc = "poll" /\ log' = Append(log, Call("Validate", idx, "pass")))
             => SelectTime <= args.validationTimeout ]_vars

\* C15 as stated: with a duration of 35 seconds and a validator that never
\* passes, ValidateClusterWithDuration makes exactly two attempts and then
\* returns the timeout error.
C15_TwoAttemptsIn35Seconds ==
    (args.validationTimeout = 35 /\ NeverPassed) =>
        /\ Attempts <= 2
        /\ PollReturned => (Attempts = 2 /\ PollReturnedTimeout)

\* C16: the first attempt is made before the timers are started, so that the
\* call never waits for a tick or the timeout without an attempt behind it; and
\* with a duration shorter than one tick no second attempt is made: when the
\* validator never passes the call returns the timeout error after exactly one
\* attempt.
C16_FirstAttemptBeforeWaiting ==
    /\ pc = "validate" => (log = << >> /\ nextTick = 0)
    /\ pc # "validate" => (Len(log) >= 1 /\ log[1].op = "Validate")
    /\ args.validationTimeout < TickDuration =>
         /\ Attempts <= 1
         /\ (PollReturned /\ NeverPassed) =>
               (Attempts = 1 /\ PollReturnedTimeout /\ Len(log) = 2)

\* C16 witness: called with a duration of zero and a validator that fails, the
\* call has returned the timeout error after one attempt
C16_Witness ==
    /\ args.validationTimeout = 0
    /\ PollReturned
    /\ log[1].op = "Validate"
    /\ log[1].res \in {"err", "failures"}
    /\ Attempts = 1
    /\ PollReturnedTimeout

\* the ways to type n: either case, with or without blanks around it
C17_StopInputs ==
    { <<"n">>, <<"N">>, <<" ", "n">>, <<"N", " ">>, <<" ", "N", " ">>, <<" ", " ", "n", " ">> }

\* C17: every way of typing n is read as stop, and other lines are not; a
\* prompt answered stop is only issued in an interactive session and is the
\* last call of the run: the process has exited with status 3 at member k,
\* RollingUpdate has returned neither nil nor an error, and no member after k
\* has a call.
C17_StopExitsTheProcess ==
    /\ \A input \in C17_StopInputs : promptInteractive(input) = "stop"
    /\ \A input \in {<< >>, <<"y">>, <<"a">>, <<"n", "o">>, <<"n", " ", "n">>} :
         promptInteractive(input) # "stop"
    /\ \A i \in Pos :
         (log[i].op = "Prompt" /\ log[i].res = "stop") =>
            /\ rollingUpdateData.Interactive
            /\ i = Len(log)
            /\ pc = "exited"
            /\ exitCode = 3
            /\ result = "exit"
            /\ err = ""
            /\ idx = log[i].m
            /\ \A j \in Pos : log[j].m <= log[i].m
    /\ exitCode # 0 => (Len(log) > 0 /\ log[Len(log)].op = "Prompt" /\ log[Len(log)].res = "stop")

\* C17 witness: the operator answered n at the prompt after the first of two
\* members, and the second member has no call
C17_Witness ==
    /\ Len(update) = 2
    /\ Len(log) > 0
    /\ log[Len(log)] = Call("Prompt", 1, "stop")
    /\ exitCode = 3
    /\ pc = "exited"
    /\ \E i \in Pos : log[i] = Call("DeleteInstance", 1, "ok")

\* the operator has answered a (always) at some prompt
AnsweredAlways == \E i \in Pos : log[i].op = "Prompt" /\ log[i].res = "always"

\* C18: in every step of an update of several groups with one session, the
\* interactive flag, once false, stays false; it changes only at a prompt
\* answered a, and then from true to false; and once the operator has answered
\* a, no step issues a prompt any more, in this group or a later one.
C18_InteractiveOnlyDowngraded ==
    [][ /\ ~rollingUpdateData.Interactive => ~rollingUpdateData'.Interactive
        /\ rollingUpdateData' # rollingUpdateData =>
              /\ pc = "prompt"
              /\ log' = Append(log, Call("Prompt", idx, "always"))
              /\ rollingUpdateData' = [rollingUpdateData EXCEPT !.Interactive = FALSE]
        /\ AnsweredAlways =>
              \A i \in (Len(log) + 1)..Len(log') : log'[i].op # "Prompt" ]_vars

\* C18 witness: the operator answered a at the first prompt of an update of
\* several groups that neither are bastions; the update finished with every
\* group's member terminated and that one prompt only
C18_Witness ==
    /\ pc = "finished"
    /\ Len(orch.groups) >= 2
    /\ orch.pos = Len(orch.groups)
    /\ \A k \in 1..Len(orch.groups) : orch.groups[k].role # "Bastion"
    /\ ~rollingUpdateData.Interactive
    /\ AnsweredAlways
    /\ Count(LAMBDA c : c.op = "Prompt") = 1
    /\ Count(LAMBDA c : c.op = "DeleteInstance" /\ c.res = "ok") = Len(orch.groups)

\* the positions of the prompts issued for member m
PromptsOf(m) == { i \in Pos : log[i].op = "Prompt" /\ log[i].m = m }

\* the processing of member m has completed without a fatal error: the loop
\* has gone on to the next member, or RollingUpdate has returned nil after it
Completed(m) == m < idx \/ (m = idx /\ pc = "done" /\ result = "nil")

\* the interactive flag was set when the processing of member m completed: it
\* is still set, or it was unset by the answer a at the prompt of m or later
InteractiveAt(m) ==
    \/ rollingUpdateData.Interactive
    \/ \E i \in Pos : log[i].op = "Prompt" /\ log[i].res = "always" /\ m <= log[i].m

\* C19 as stated: in every mode, bastion and cloud-only included, a member
\* whose processing completed while the interactive flag was set has exactly
\* one prompt, issued after its pacing delay and validation and before any call
\* for the next member; a member whose processing completed with the flag
\* unset has none.
C19_PromptAfterEveryMember ==
    \A m \in 1..Len(update) :
        Completed(m) =>
            IF InteractiveAt(m)
            THEN \E i \in Pos :
                    /\ PromptsOf(m) = {i}
                    /\ i > 1
                    /\ log[i-1].m = m
                    /\ log[i-1].op \in {"Sleep", "Validate", "ValidateTimeout"}
                    /\ i < Len(log) => log[i+1].m = m + 1
            ELSE PromptsOf(m) = {}

\* the pairs of roles the claim orders: the first wholly before the second
C20_RolePairs == { <<"Bastion", "Master">>, <<"Master", "Node">> }

\* C20: when the RollingUpdate of a master group begins, the RollingUpdate of
\* every bastion group of the cluster has begun and returned; and when that of
\* a node group begins, that of every master group has begun and returned.
C20_RoleOrder ==
    \A j \in 1..Len(orch.trace) :
        orch.trace[j][1] = "begin" =>
            \A a \in 1..Len(orch.groups) :
                <<orch.groups[a].role, orch.groups[orch.trace[j][2]].role>> \in C20_RolePairs =>
                    \E h, i \in 1..(j - 1) :
                        /\ h < i
                        /\ orch.trace[h] = <<"begin", a>>
                        /\ orch.trace[i] = <<"end", a>>

\* C20 witness: a cluster given as a node group, a master group and a bastion
\* group, in that order, has been updated to the end without a failed call: the
\* bastion group first, the node group last
C20_Witness ==
    /\ pc = "finished"
    /\ result = "nil"
    /\ faults = 0
    /\ Len(orch.groups) = 3
    /\ orch.groups[1].role = "Node"
    /\ orch.groups[2].role = "Master"
    /\ orch.groups[3].role = "Bastion"
    /\ orch.trace = << <<"begin", 3>>, <<"end", 3>>, <<"begin", 2>>, <<"end", 2>>,
                       <<"begin", 1>>, <<"end", 1>> >>

\* the run takes the validating branch: no bastion, no CloudOnly, feature flag on
Validating == ~args.isBastion /\ ~rollingUpdateData.CloudOnly /\ DrainAndValidate

\* the call c can be the last step of its member: the prompt answered to go
\* on; or, the interactive flag being unset then, the end of the validation;
\* or, without validation, the pacing delay (which a bastion group ends with
\* whatever the flag)
FinishesMember(c) ==
    \/ c.op = "Prompt" /\ c.res \in {"continue", "always"}
    \/ /\ ~InteractiveAt(c.m)
       /\ Validating
       /\ \/ c.op = "Validate" /\ c.res = "pass"
          \/ c.op = "ValidateTimeout" /\ ~rollingUpdateData.FailOnValidate
    \/ /\ c.op = "Sleep"
       /\ ~Validating
       /\ args.isBastion \/ ~InteractiveAt(c.m)

\* C21: the members are processed one after the other: the calls of the log
\* are grouped by member, in the order of the update set, none left out and
\* none beyond the member the loop is at; and where the calls of member k+1
\* start, member k has been terminated, its pacing delay is over, and the call
\* just before is the last step of member k (the end of its validation or its
\* prompt, as far as the mode has them).
C21_StrictlySequential ==
    /\ \A i \in Pos : log[i].m <= idx
    /\ Len(log) > 0 => log[1].m \in {0, 1}
    /\ \A j \in 2..Len(log) :
         log[j].m # log[j-1].m =>
            LET k == log[j-1].m
            IN  /\ log[j].m = k + 1
                /\ k > 0 =>
                     /\ FinishesMember(log[j-1])
                     /\ \E h, i \in 1..(j-1) :
                           /\ h < i
                           /\ log[h] = Call("DeleteInstance", k, "ok")
                           /\ log[i] = Call("Sleep", k, "ok")

\* C21 witness: in a validating, interactive run the first member was drained,
\* terminated, validated and prompted for, and the second has been drained
C21_Witness ==
    /\ Validating
    /\ Len(update) = 2
    /\ \E i \in Pos : log[i] = Call("RunNodeDrain", 1, "ok")
    /\ \E i \in Pos : log[i] = Call("Validate", 1, "pass")
    /\ \E i \in Pos : log[i] = Call("Prompt", 1, "continue")
    /\ Len(log) > 0
    /\ log[Len(log)] = Call("RunNodeDrain", 2, "ok")

\* the state of the replacement of member m, read from the position of the
\* run given as loop index, program position and result
MemberStateAt(m, i, p, res) ==
    CASE m > i                                -> "Pending"
      [] m < i                                -> "Done"
      [] p = "drain"                          -> "Pending"
      [] p = "evict"                          -> "Draining"
      [] p = "nodeDelete"                     ->
            IF ~args.isBastion /\ ~rollingUpdateData.CloudOnly /\ update[m].Node # NoNode
            THEN "NodeDeleting" ELSE "Pending"
      [] p = "terminate"                      -> "Terminating"
      [] p = "sleep"                          -> "Terminated"
      [] p \in {"validate", "poll"}           -> "Validating"
      [] p \in {"prompt", "exited"}           -> IF Validating THEN "Validated" ELSE "Terminated"
      [] p = "done" /\ res = "nil"            -> "Done"
      [] p = "done" /\ res = "error"          -> "Aborted"
      [] OTHER                                -> "Pending"

\* member m goes directly to its termination: its group is a bastion group or
\* cloud-only, or it has no registered node
GoesDirectlyToTermination(m) ==
    args.isBastion \/ rollingUpdateData.CloudOnly \/ update'[m].Node = NoNode

\* the transitions the state machine of a member's replacement has
C22_Transitions(m) ==
    { <<"Pending", "Draining">>, <<"Draining", "NodeDeleting">>,
      <<"NodeDeleting", "Terminating">>, <<"Terminating", "Terminated">>,
      <<"Terminated", "Validating">>, <<"Validating", "Validated">>,
      <<"Validated", "Done">>, <<"Terminated", "Done">> }
    \cup (IF GoesDirectlyToTermination(m) THEN {<<"Pending", "Terminating">>} ELSE {})
    \cup { <<s, "Aborted">> : s \in {"Pending", "Draining", "NodeDeleting", "Terminating",
                                     "Terminated", "Validating", "Validated"} }

\* the step changes the state of member m along the transitions of `allowed`;
\* a step that calls the cordon and comes back from DrainNode at once has
\* passed through Draining
StepFollows(m, allowed) ==
    LET s == MemberStateAt(m, idx, pc, result)
        t == MemberStateAt(m, idx', pc', result')
    IN  s # t =>
           \/ <<s, t>> \in allowed
           \/ /\ s = "Pending"
              /\ <<"Draining", t>> \in allowed
              /\ Len(log') > Len(log)
              /\ log'[Len(log')].op = "Cordon"
              /\ log'[Len(log')].m = m

\* some member is Aborted
SomeAborted == pc = "done" /\ result = "error" /\ idx > 0

\* C22 as stated: every step changes the state of every member along the
\* transitions of the state machine only, and once a member is Aborted no
\* step changes anything and RollingUpdate has returned an error.
C22_StateMachineAsStated ==
    [][ /\ \A m \in 1..Len(update') : StepFollows(m, C22_Transitions(m))
        /\ SomeAborted => (UNCHANGED vars /\ result = "error" /\ err # "") ]_vars

\* C22 amended: the same with one more transition: from Pending directly to
\* NodeDeleting for a registered member of a group that is neither bastion
\* nor cloud-only when the feature flag DrainAndValidateRollingUpdate is off
\* (no drain is made then, but the node is deleted).
C22_StateMachine ==
    [][ /\ \A m \in 1..Len(update') :
             StepFollows(m, C22_Transitions(m) \cup
                            (IF ~DrainAndValidate /\ ~GoesDirectlyToTermination(m)
                             THEN {<<"Pending", "NodeDeleting">>} ELSE {}))
        /\ SomeAborted => (UNCHANGED vars /\ result = "error" /\ err # "") ]_vars

\* C22 witness: in a validating run the first member went through drain, node
\* deletion, termination and validation, and the second is Aborted by a
\* failed node deletion after its drain
C22_Witness ==
    /\ Validating
    /\ Len(update) = 2
    /\ MemberStateAt(1, idx, pc, result) = "Done"
    /\ MemberStateAt(2, idx, pc, result) = "Aborted"
    /\ \E i \in Pos : log[i] = Call("RunNodeDrain", 1, "ok")
    /\ \E i \in Pos : log[i] = Call("NodeDelete", 1, "ok")
    /\ \E i \in Pos : log[i] = Call("Validate", 1, "pass")
    /\ \E i \in Pos : log[i] = Call("RunNodeDrain", 2, "ok")
    /\ log[Len(log)] = Call("NodeDelete", 2, "err")

\* the drain of member m has begun
DrainBegun(m) == \E i \in Pos : log[i].op = "Cordon" /\ log[i].m = m

\* DeleteInstance has been called for member m
TerminationCalled(m) == \E i \in Pos : log[i].op = "DeleteInstance" /\ log[i].m = m

\* the operator stops the run only at the prompt between members: a process
\* that has exited did so on the answer to the prompt of the member the loop
\* is at, after that member's termination and pacing delay
StoppedOnlyAtPrompt ==
    pc = "exited" =>
        /\ Len(log) > 2
        /\ log[Len(log)] = Call("Prompt", idx, "stop")
        /\ \E h, i \in Pos : /\ h < i
                             /\ log[h] = Call("DeleteInstance", idx, "ok")
                             /\ log[i] = Call("Sleep", idx, "ok")

\* C23 as stated: a run that has ended has called DeleteInstance for every
\* member whose drain had begun, and the operator stops the run only at the
\* prompt between members.
C23_CommittedOnceDrained ==
    /\ Ended => \A m \in 1..Len(update) : DrainBegun(m) => TerminationCalled(m)
    /\ StoppedOnlyAtPrompt

\* C23 amended: a member whose drain has begun is never left behind: while
\* the run has not ended it can take a step, and when it has ended DeleteInstance
\* was called for the member, unless the run returned at that member because
\* its drain failed with FailOnDrainError set or its node deletion failed; and
\* the operator stops the run only at the prompt between members.
C23_NoMidMemberStop ==
    /\ pc \notin {"start", "done", "exited", "finished"} => ENABLED Next
    /\ Ended =>
         \A m \in 1..Len(update) :
            (DrainBegun(m) /\ ~TerminationCalled(m)) =>
                /\ pc = "done"
                /\ result = "error"
                /\ idx = m
                /\ \/ /\ err = "failed to drain node"
                      /\ rollingUpdateData.FailOnDrainError
                      /\ IsDrainFailure(log[Len(log)])
                   \/ /\ err = "error deleting node"
                      /\ log[Len(log)] = Call("NodeDelete", m, "err")
    /\ StoppedOnlyAtPrompt

\* C23 witness: the eviction of the first member failed, FailOnDrainError
\* being unset, and the run went on to terminate it and was stopped by the
\* operator at its prompt
C23_Witness ==
    /\ ~rollingUpdateData.FailOnDrainError
    /\ \E i \in Pos : log[i] = Call("RunNodeDrain", 1, "err")
    /\ \E i \in Pos : log[i] = Call("DeleteInstance", 1, "ok")
    /\ pc = "exited"
    /\ idx = 1
    /\ Len(update) = 2

\* the calls of the validation before the loop
PreFlightCalls == Count(LAMBDA c : c.op = "ValidateCluster" /\ c.m = 0)

\* the run is past the point of the validation before the loop
PastPreFlight == Len(update) > 0 /\ pc \notin {"start", "preflight"}

\* the validation before the loop was called once, before every other call
PreFlightOnceAndFirst ==
    /\ PreFlightCalls = 1
    /\ log[1].op = "ValidateCluster"
    /\ log[1].m = 0

\* C24 as stated: in a non-bastion, non-cloud-only group with a non-empty
\* update set the validation before the loop is called exactly once and is the
\* first call of the run; in a bastion group and in cloud-only mode it is
\* never called.
C24_PreFlightOnce ==
    /\ (~args.isBastion /\ ~rollingUpdateData.CloudOnly /\ PastPreFlight) => PreFlightOnceAndFirst
    /\ (args.isBastion \/ rollingUpdateData.CloudOnly) => PreFlightCalls = 0

\* C24 amended: with the feature flag DrainAndValidateRollingUpdate enabled, in
\* a non-bastion, non-cloud-only group with a non-empty update set the
\* validation before the loop is called exactly once and is the first call of
\* the run; in a bastion group, in cloud-only mode and with the flag disabled
\* it is never called.
C24_PreFlightOnceWhenEnabled ==
    /\ (Validating /\ PastPreFlight) => PreFlightOnceAndFirst
    /\ ~Validating => PreFlightCalls = 0

\* C24 witness: the validation before the loop failed, FailOnValidate being
\* unset, and the drain of the first member followed it
C24_Witness ==
    /\ Validating
    /\ ~rollingUpdateData.FailOnValidate
    /\ Len(log) >= 2
    /\ log[1] = Call("ValidateCluster", 0, "err")
    /\ log[2].op = "Cordon"
    /\ log[2].m = 1

\* the loop has left the step of kind k (3: termination, 4: pacing delay,
\* 5: validation) of member m behind
PastStep(m, k) ==
    \/ m < idx
    \/ /\ m = idx
       /\ pc \in (CASE k = 3 -> {"sleep", "validate", "poll", "prompt", "done", "exited"}
                    [] k = 4 -> {"validate", "poll", "prompt", "done", "exited"}
                    [] OTHER -> {"prompt", "done", "exited"})

\* member m of a non-bastion, non-cloud-only group has no registered node
Unregistered(m) ==
    /\ ~args.isBastion
    /\ ~rollingUpdateData.CloudOnly
    /\ m \in 1..Len(update)
    /\ update[m].Node = NoNode

\* member m was neither drained nor deleted from the API, its termination was
\* its first call and, the termination having succeeded, the pacing delay
\* followed it
TerminatedAndPacedOnly(m) ==
    LET steps == StepsOf(m)
    IN  /\ \A i \in 1..Len(steps) : StepKind(steps[i].op) \notin {1, 2}
        /\ PastStep(m, 3) => (Len(steps) >= 1 /\ steps[1].op = "DeleteInstance")
        /\ (PastStep(m, 4) /\ steps[1].res = "ok") =>
               (Len(steps) >= 2 /\ steps[2] = Call("Sleep", m, "ok"))

\* the validation after the termination of member m was run, the termination
\* having succeeded
ValidatedAfter(m) ==
    LET steps == StepsOf(m)
    IN  (PastStep(m, 5) /\ steps[1].res = "ok") =>
            (Len(steps) >= 3 /\ steps[3].op = "Validate")

\* C25 as stated: for a member of a non-bastion, non-cloud-only group with no
\* registered node there is no cordon, eviction or node deletion, DeleteInstance
\* is its first call, and after a successful DeleteInstance come the pacing
\* delay and then the validation.
C25_UnregisteredMember ==
    \A m \in 1..Len(update) :
        Unregistered(m) => (TerminatedAndPacedOnly(m) /\ ValidatedAfter(m))

\* C25 amended: for a member of a non-bastion, non-cloud-only group with no
\* registered node there is no cordon, eviction or node deletion, DeleteInstance
\* is its first call, after a successful DeleteInstance comes the pacing delay
\* and, with the feature flag DrainAndValidateRollingUpdate enabled, then the
\* validation; with the flag disabled the pacing delay is its last call.
C25_UnregisteredMemberWhenEnabled ==
    \A m \in 1..Len(update) :
        Unregistered(m) =>
            /\ TerminatedAndPacedOnly(m)
            /\ IF DrainAndValidate
               THEN ValidatedAfter(m)
               ELSE Len(StepsOf(m)) <= 2

\* C25 witness: the first member has no registered node, the flag is enabled,
\* and its termination, pacing delay and a passing validation are the first
\* calls after the validation before the loop; the loop is at the second member
C25_Witness ==
    /\ Unregistered(1)
    /\ DrainAndValidate
    /\ idx = 2
    /\ Len(log) >= 4
    /\ log[2] = Call("DeleteInstance", 1, "ok")
    /\ log[3] = Call("Sleep", 1, "ok")
    /\ log[4] = Call("Validate", 1, "pass")

\* a DeleteInstance that succeeded
IsTermination(c) == c.op = "DeleteInstance" /\ c.res = "ok"

\* a pacing delay
IsPacingDelay(c) == c.op = "Sleep"

\* C26: in every mode, whenever the run is not between a termination and its
\* pacing delay, there are as many pacing delays as successful DeleteInstance
\* calls; the call after a successful DeleteInstance is the pacing delay of the
\* same member, a pacing delay comes only there, and a failed DeleteInstance is
\* the last call of the run.
C26_PacingPerTermination ==
    /\ pc # "sleep" => Count(IsPacingDelay) = Count(IsTermination)
    /\ pc = "sleep" => (Len(log) > 0 /\ IsTermination(log[Len(log)]))
    /\ \A i \in Pos :
         /\ (IsTermination(log[i]) /\ i < Len(log)) => log[i+1] = Call("Sleep", log[i].m, "ok")
         /\ IsPacingDelay(log[i]) => (i > 1 /\ log[i-1] = Call("DeleteInstance", log[i].m, "ok"))
         /\ (log[i].op = "DeleteInstance" /\ log[i].res = "err") => i = Len(log)

\* C26 witness: in a bastion group the first member was terminated and paced,
\* and the termination of the second failed
C26_Witness ==
    /\ args.isBastion
    /\ log = << Call("DeleteInstance", 1, "ok"), Call("Sleep", 1, "ok"),
                Call("DeleteInstance", 2, "err") >>
    /\ pc = "done"

\* the DeleteInstance calls made for member m
TerminationsOf(m) == Count(LAMBDA c : c.op = "DeleteInstance" /\ c.m = m)

\* C27: within one RollingUpdate DeleteInstance is called at most once for each
\* member of the update set and for nothing else, and after a DeleteInstance
\* that failed the run has returned its error without a further call.
C27_NoRetry ==
    /\ \A m \in 1..Len(update) : TerminationsOf(m) <= 1
    /\ \A i \in Pos :
         log[i].op = "DeleteInstance" =>
            /\ log[i].m \in 1..Len(update)
            /\ log[i].res # "ok" =>
                 /\ i = Len(log)
                 /\ pc = "done"
                 /\ result = "error"
                 /\ err = "error deleting instance"

\* C27 witness: with the feature flag enabled the first member of two was
\* replaced and validated, and the DeleteInstance of the second failed
C27_Witness ==
    /\ Validating
    /\ Len(update) = 2
    /\ TerminationsOf(1) = 1
    /\ \E i \in Pos : log[i] = Call("Validate", 1, "pass")
    /\ log[Len(log)] = Call("DeleteInstance", 2, "err")
    /\ pc = "done"

\* the call that completes a ValidateClusterWithDuration the run goes on after:
\* an attempt that passed, or the timeout with FailOnValidate unset
CompletesValidation(c) ==
    \/ c.op = "Validate" /\ c.res = "pass"
    \/ c.op = "ValidateTimeout" /\ ~rollingUpdateData.FailOnValidate

\* C28 as stated: in a non-bastion, non-cloud-only run the call before every
\* prompt is the one that completes the ValidateClusterWithDuration of the
\* same member.
C28_ValidatedBeforePrompt ==
    (~args.isBastion /\ ~rollingUpdateData.CloudOnly) =>
        \A i \in Pos :
            log[i].op = "Prompt" =>
                /\ i > 1
                /\ log[i-1].m = log[i].m
                /\ CompletesValidation(log[i-1])

\* C28 amended: in a non-bastion, non-cloud-only run with the feature flag
\* DrainAndValidateRollingUpdate enabled the call before every prompt is the
\* one that completes the ValidateClusterWithDuration of the same member; with
\* the flag disabled it is the pacing delay of the same member.
C28_ValidatedBeforePromptWhenEnabled ==
    (~args.isBastion /\ ~rollingUpdateData.CloudOnly) =>
        \A i \in Pos :
            log[i].op = "Prompt" =>
                /\ i > 1
                /\ log[i-1].m = log[i].m
                /\ IF DrainAndValidate
                   THEN CompletesValidation(log[i-1])
                   ELSE IsPacingDelay(log[i-1])

\* C28 witness: with the flag enabled the validation after the termination of
\* the first member timed out, FailOnValidate being unset, and the operator was
\* then prompted for that member
C28_Witness ==
    /\ Validating
    /\ \E i \in 2..Len(log) :
          /\ log[i].op = "Prompt"
          /\ log[i].m = 1
          /\ log[i-1] = Call("ValidateTimeout", 1, log[i-1].res)

\* C29: a prompt whose answer could not be read is the last call of the run:
\* RollingUpdate has returned that error, the interactive flag is still set as
\* it was when the prompt was issued, the loop stands at the member prompted
\* for, whose termination and pacing delay are done, and the log holds no call
\* for a later member.
C29_PromptReadErrorFatal ==
    \A i \in Pos :
        log[i] = Call("Prompt", log[i].m, "err") =>
            /\ i = Len(log)
            /\ pc = "done"
            /\ result = "error"
            /\ err = "unable to interpret input"
            /\ exitCode = 0
            /\ rollingUpdateData.Interactive
            /\ idx = log[i].m
            /\ \A j \in Pos : log[j].m <= log[i].m
            /\ \E h \in 1..(i-1) : log[h] = Call("DeleteInstance", log[i].m, "ok")

\* C29 witness: the answer at the prompt of the first member of two could not
\* be read
C29_Witness ==
    /\ Len(update) = 2
    /\ Len(log) > 0
    /\ log[Len(log)] = Call("Prompt", 1, "err")
    /\ pc = "done"

\* the characters of the lines typed at the prompt
C30_Chars == {" ", "y", "n", "N", "a", "A", "o"}

\* the lines of at most two characters, the empty one (an empty line, or the
\* end of the input) included, and some longer ones
C30_Lines ==
    {<< >>} \cup { <<c>> : c \in C30_Chars } \cup { <<c, d>> : c, d \in C30_Chars }
    \cup { <<" ", c, " ">> : c \in C30_Chars } \cup {<<"n", " ", "a">>, <<"y", "e", "s">>}

\* the line is one of `letters` with nothing but blanks around it
IsLetterLine(input, letters) ==
    \E k \in 1..Len(input) :
        /\ input[k] \in letters
        /\ \A j \in 1..Len(input) : j # k => input[j] = " "

\* a line is read as continue exactly when it is not an n or an a, in either
\* case, with nothing but blanks around it
C30_LinesRead ==
    \A input \in C30_Lines :
        promptInteractive(input) = "continue" <=> ~IsLetterLine(input, {"n", "N", "a", "A"})

\* the step is a prompt answered continue
ContinueStep == log' = Append(log, Call("Prompt", idx, "continue"))

\* C30: a line is read as continue exactly when it is not an n or an a, in
\* either case, with nothing but blanks around it; a prompt answered continue
\* was issued with the interactive flag set and leaves it set, does not exit
\* the process, and takes the loop to the next member (or, after the last one,
\* returns nil); and when the processing of that next member has completed, it
\* has been prompted for.
C30_OtherInputsContinue ==
    /\ []C30_LinesRead
    /\ [](\A i \in Pos :
             (log[i].op = "Prompt" /\ log[i].res = "continue" /\ Completed(log[i].m + 1)) =>
                 PromptsOf(log[i].m + 1) # {})
    /\ [][ContinueStep =>
             /\ rollingUpdateData.Interactive
             /\ rollingUpdateData' = rollingUpdateData
             /\ exitCode' = 0
             /\ pc' # "exited"
             /\ IF idx < Len(update)
                THEN idx' = idx + 1 /\ pc' = "drain" /\ result' = result
                ELSE pc' = "done" /\ result' = "nil"]_vars

\* C30 witness: the operator answered with a line read as continue at the
\* prompt of the first member and was prompted again for the second, and
\* RollingUpdate returned nil with the interactive flag still set
C30_Witness ==
    /\ Len(update) = 2
    /\ \E i \in Pos : log[i] = Call("Prompt", 1, "continue")
    /\ log[Len(log)] = Call("Prompt", 2, "continue")
    /\ rollingUpdateData.Interactive
    /\ pc = "done"
    /\ result = "nil"
    /\ exitCode = 0

\* C31: no step of a RollingUpdate run changes the NeedUpdate or the Ready
\* list of the cloud group, whether the run is forced or not and however it
\* ends; the update set is computed from the two lists once, at the start, and
\* no later step changes it.
C31_CloudGroupReadOnly ==
    /\ [](update \in {<< >>, NeedUpdate, NeedUpdate \o Ready})
    /\ [][ /\ NeedUpdate' = NeedUpdate
           /\ Ready' = Ready
           /\ pc # "start" => update' = update ]_vars

\* C31 witness: a forced run over one NeedUpdate and one Ready member was
\* aborted at the Ready member
C31_Witness ==
    /\ rollingUpdateData.Force
    /\ Len(NeedUpdate) = 1
    /\ Len(Ready) = 1
    /\ update = NeedUpdate \o Ready
    /\ idx = 2
    /\ pc = "done"
    /\ result = "error"

\* the fields of the session other than Interactive
C32_OtherFields ==
    {"K8sClient", "CloudOnly", "Force", "FailOnValidate", "FailOnDrainError", "PostDrainDelay"}

\* C32: no step of a RollingUpdate run changes a field of the session other
\* than Interactive: the Kubernetes client, CloudOnly, Force, FailOnValidate,
\* FailOnDrainError and the post-drain delay are after every step what they
\* were before it.
C32_SessionUnchanged ==
    [][\A f \in C32_OtherFields : rollingUpdateData'[f] = rollingUpdateData[f]]_vars

\* C32 witness: in a session with Force, FailOnValidate and FailOnDrainError
\* set the operator answered a, the interactive flag was unset, and the run
\* returned nil
C32_Witness ==
    /\ AnsweredAlways
    /\ ~rollingUpdateData.Interactive
    /\ rollingUpdateData.Force
    /\ rollingUpdateData.FailOnValidate
    /\ rollingUpdateData.FailOnDrainError
    /\ rollingUpdateData.K8sClient = "client"
    /\ pc = "done"
    /\ result = "nil"

\* DrainNode was called for the member the loop is at without a client,
\* without a Node, or with a Node that has no name
DrainNodeCalledUnfit ==
    \/ rollingUpdateData.K8sClient = "nil"
    \/ u.Node = NoNode
    \/ u.Node = ""

\* DrainNode, called on its own, has returned an error
DrainNodeReturnedError == pc = "done" /\ result = "error" /\ err # ""

\* C33: in every state of a DrainNode call: an eviction comes right after
\* the successful cordon of the same member; a failed cordon is the last call
\* and DrainNode has returned an error; the post-drain delay comes right
\* after a successful eviction, and it comes there exactly when the configured
\* delay is positive; DrainNode returns nil only after a successful cordon and
\* a successful eviction; and called without a client, without a Node or with
\* a Node without a name it makes no call at all and returns an error.
C33_CordonThenEvict ==
    /\ \A i \in Pos :
         /\ log[i].op \in {"Cordon", "RunNodeDrain", "PostDrainSleep"}
         /\ log[i].op = "RunNodeDrain" =>
               (i > 1 /\ log[i-1] = Call("Cordon", log[i].m, "ok"))
         /\ (log[i].op = "Cordon" /\ log[i].res = "err") =>
               (i = Len(log) /\ DrainNodeReturnedError)
         /\ (log[i].op = "RunNodeDrain" /\ log[i].res = "err") =>
               (i = Len(log) /\ DrainNodeReturnedError)
         /\ log[i].op = "PostDrainSleep" =>
               /\ i > 1
               /\ log[i-1] = Call("RunNodeDrain", log[i].m, "ok")
               /\ rollingUpdateData.PostDrainDelay > 0
         /\ (log[i] = Call("RunNodeDrain", log[i].m, "ok") /\ rollingUpdateData.PostDrainDelay > 0) =>
               (i < Len(log) /\ log[i+1].op = "PostDrainSleep")
    /\ Count(LAMBDA c : c.op = "Cordon") <= 1
    /\ (pc = "done" /\ result = "nil") =>
          (Len(log) >= 2 /\ log[1] = Call("Cordon", 1, "ok") /\ log[2] = Call("RunNodeDrain", 1, "ok"))
    /\ DrainNodeCalledUnfit => (log = << >> /\ (pc # "drain" => DrainNodeReturnedError))

\* C33 witness: DrainNode cordoned and evicted a node, slept the post-drain
\* delay and returned nil
C33_Witness ==
    /\ args.entry = "DrainNode"
    /\ rollingUpdateData.PostDrainDelay > 0
    /\ log = << Call("Cordon", 1, "ok"), Call("RunNodeDrain", 1, "ok"),
                Call("PostDrainSleep", 1, "ok") >>
    /\ pc = "done"
    /\ result = "nil"

\* the step is a validation attempt answered res
AttemptStep(res) == log' = Append(log, Call("Validate", idx, res))

IsValidationOrDrain(c) ==
    c.op \in {"ValidateCluster", "Validate", "ValidateTimeout",
              "Cordon", "RunNodeDrain", "PostDrainSleep"}

\* C35: with the feature flag DrainAndValidateRollingUpdate disabled, a
\* non-bastion, non-cloud-only run makes no validation call, before the loop
\* or after a termination, and no cordon, eviction or post-drain delay; the
\* call before the DeleteInstance of a registered member is the deletion of
\* its node, which succeeded or found no node; and an unregistered member has
\* no node deletion.
C35_FlagDisabled ==
    (~DrainAndValidate /\ ~args.isBastion /\ ~rollingUpdateData.CloudOnly) =>
        /\ Count(IsValidationOrDrain) = 0
        /\ \A i \in Pos :
             /\ log[i].op = "DeleteInstance" =>
                  IF update[log[i].m].Node # NoNode
                  THEN /\ i > 1
                       /\ log[i-1].op = "NodeDelete"
                       /\ log[i-1].m = log[i].m
                       /\ log[i-1].res \in {"ok", "notfound"}
                  ELSE i = 1 \/ log[i-1].m # log[i].m
             /\ log[i].op = "NodeDelete" => update[log[i].m].Node # NoNode
        /\ pc = "terminate" =>
             (u.Node # NoNode => (Len(log) > 0 /\ log[Len(log)].op = "NodeDelete" /\ log[Len(log)].m = idx))

\* C35 witness: with the flag disabled a run over two registered members of a
\* non-bastion, non-cloud-only group returned nil after deleting the node of
\* each and terminating each
C35_Witness ==
    /\ ~DrainAndValidate
    /\ ~args.isBastion
    /\ ~rollingUpdateData.CloudOnly
    /\ ~rollingUpdateData.Interactive
    /\ log = << Call("NodeDelete", 1, "ok"), Call("DeleteInstance", 1, "ok"), Call("Sleep", 1, "ok"),
                Call("NodeDelete", 2, "ok"), Call("DeleteInstance", 2, "ok"), Call("Sleep", 2, "ok") >>
    /\ pc = "done"
    /\ result = "nil"

\* the group has nothing to update: NeedUpdate is empty and, in a forced run,
\* so is Ready
NothingToUpdate == NeedUpdate = << >> /\ (rollingUpdateData.Force => Ready = << >>)

\* the session has no Kubernetes client and is not cloud-only, or the list of
\* instance groups is nil
C36_BadArguments ==
    \/ rollingUpdateData.K8sClient = "nil" /\ ~rollingUpdateData.CloudOnly
    \/ args.instanceGroupListNil

\* C36: RollingUpdate called for a group with nothing to update, with a
\* session that has no Kubernetes client and is not cloud-only or with a nil
\* list of instance groups, has not returned nil: it returned the error of the
\* argument check, without a call.
C36_ChecksBeforeShortcut ==
    (NothingToUpdate /\ C36_BadArguments /\ pc # "start") =>
        /\ pc = "done"
        /\ result = "error"
        /\ err \in {"rollingUpdate cannot be nil", "rollingUpdate is missing a k8s client",
                    "rollingUpdate is missing the InstanceGroupList"}
        /\ args.rollingUpdateDataNil <=> err = "rollingUpdate cannot be nil"
        /\ update = << >>
        /\ log = << >>

\* C36 witness: RollingUpdate for an empty group, with a session without a
\* client that is not cloud-only, returned the error about the client
C36_Witness ==
    /\ NeedUpdate = << >>
    /\ Ready = << >>
    /\ ~args.rollingUpdateDataNil
    /\ ~args.instanceGroupListNil
    /\ rollingUpdateData.K8sClient = "nil"
    /\ ~rollingUpdateData.CloudOnly
    /\ pc = "done"
    /\ result = "error"
    /\ err = "rollingUpdate is missing a k8s client"

\* the members DeleteInstance has been called for, and those it succeeded for
TerminationCalledFor == { m \in 1..Len(update) : TerminationCalled(m) }
TerminatedMembers == { m \in 1..Len(update) : \E i \in Pos : log[i] = Call("DeleteInstance", m, "ok") }

\* the update order: the NeedUpdate members in list order, followed in a
\* forced run by the Ready members in list order
C37_UpdateOrder == IF rollingUpdateData.Force THEN NeedUpdate \o Ready ELSE NeedUpdate

\* C37: in every state of a run that has passed the argument checks the
\* update set is the update order; the members DeleteInstance has been called
\* for are the first n of it for some n, all of them before the member the loop
\* is at terminated; and when the run has returned an error at member k, the
\* terminated members are those before k, or those and k.
C37_TerminatedPrefix ==
    /\ (pc # "start" /\ ~(pc = "done" /\ err \in ConfigErrors)) => update = C37_UpdateOrder
    /\ \E n \in 0..Len(update) : TerminationCalledFor = 1..n
    /\ TerminationCalledFor \in {1..idx, 1..(idx - 1)}
    /\ 1..(idx - 1) \subseteq TerminatedMembers
    /\ \A i \in Pos : log[i].op = "DeleteInstance" => i = Len(log) \/ log[i].res = "ok"
    /\ (pc = "done" /\ result = "error" /\ idx > 0) =>
          TerminatedMembers \in {1..(idx - 1), 1..idx}

\* C37 witness: a forced run over one NeedUpdate and one Ready member returned
\* an error at the Ready member after terminating it: its validation timed out
C37_Witness ==
    /\ rollingUpdateData.Force
    /\ Len(NeedUpdate) = 1
    /\ Len(Ready) = 1
    /\ pc = "done"
    /\ result = "error"
    /\ idx = 2
    /\ TerminatedMembers = {1, 2}
    /\ log[Len(log)].op = "ValidateTimeout"

\* how far in the loop body a position of the run is
StageRank(p) ==
    CASE p = "start"      -> 0
      [] p = "preflight"  -> 1
      [] p = "drain"      -> 2
      [] p = "evict"      -> 3
      [] p = "nodeDelete" -> 4
      [] p = "terminate"  -> 5
      [] p = "sleep"      -> 6
      [] p = "validate"   -> 7
      [] p = "poll"       -> 8
      [] p = "prompt"     -> 9
      [] OTHER            -> 10

\* C38: a RollingUpdate run, every call of which returns and every prompt of
\* which is answered, ends: it returns nil or an error, or the process exits;
\* and no step takes the loop back: the member the loop is at stays or is
\* followed by the next one, whose body starts at its beginning, and within a
\* member the run only moves forward in the loop body, staying in place only
\* in the polling loop of the validation.
C38_AlwaysFinishes ==
    /\ [](engine.r # {} => <>Ended)
    /\ [][ /\ idx' \in {idx, idx + 1}
           /\ idx' = idx + 1 => pc' = "drain"
           /\ idx' = idx =>
                /\ StageRank(pc') >= StageRank(pc)
                /\ StageRank(pc') = StageRank(pc) => pc = "poll" ]_vars

\* C38 witness: a run over two members returned nil although the validation of
\* the second went on failing after the timeout had elapsed, until the timeout
\* was taken
C38_Witness ==
    /\ Len(update) = 2
    /\ pc = "done"
    /\ result = "nil"
    /\ log[Len(log)] = Call("ValidateTimeout", 2, "err")
    /\ clock >= args.validationTimeout + TickDuration

\* C39: ValidateClusterWithDuration returns, whatever the validator answers
\* and however long it goes on failing, provided a select that finds the
\* timeout channel ready at every round takes it in the end; and when no
\* attempt has passed, what it returns is the timeout error.
C39_PollAlwaysReturns ==
    /\ <>PollReturned
    /\ []((PollReturned /\ NeverPassed) => PollReturnedTimeout)

\* C39 witness: with a duration of 60 seconds the validator went on failing
\* after the timeout had elapsed, the tick being taken, and the call then
\* returned the timeout error
C39_Witness ==
    /\ args.validationTimeout = 60
    /\ NeverPassed
    /\ PollReturnedTimeout
    /\ faults = args.maxFaults
    /\ clock >= args.validationTimeout + TickDuration

\* C40 as stated: once the first attempt has been made, the validator calls of
\* one ValidateClusterWithDuration call number at least 1 and at most
\* 1 + floor(duration / 30 s); and the timers are started only when the first
\* attempt has returned: no time has passed on them before it.
C40_AttemptsBound ==
    /\ pc = "validate" => (Attempts = 0 /\ clock = 0 /\ nextTick = 0)
    /\ pc # "validate" =>
         /\ Attempts >= 1
         /\ Attempts <= 1 + (args.validationTimeout \div TickDuration)

====
